---- MODULE Spec2Model ----
(***************************************************************************)
(* A model of the adapter / training-data persistence layer of the         *)
(* Avatar-Adapter-Management service: the object store as the code uses    *)
(* it, the AdapterPersistenceManager operations, the API handlers of       *)
(* api/adapters.py and api/training_data.py, and the training              *)
(* orchestration of service/training_service.py.                           *)
(*                                                                         *)
(* Object keys are sequences of path components, so that a prefix of a key *)
(* is a prefix of the sequence and os.path.basename is its last component. *)
(* Every operation of the code is one action: the code has no locking and  *)
(* the claims checked here are about operations that run one at a time.    *)
(***************************************************************************)
EXTENDS Integers, Sequences, FiniteSets, TLC

VARIABLES
    store,   \* the bucket: object key -> stored object (NoObject when absent)
    clock,   \* the value datetime.now() returns next
    local,   \* caller-owned local directories handed to backup / restore
    last     \* the operation that ran last, with its arguments and its outcome

vars == <<store, clock, local, last>>

(***************************************************************************)
(* Bounds of the model.                                                    *)
(***************************************************************************)
\* datetime.now() is read at most MaxClock times in a behaviour.
MaxClock == 3
\* A stored training_history holds at most MaxHistory entries.
MaxHistory == 2

(***************************************************************************)
(* Identities.  settings.USER_ID is fixed for the process; the user_id of  *)
(* a request is a path parameter and may be any string.                    *)
(***************************************************************************)
USER_ID == "u1"
Users == {"u1", "u2"}
Avatars == {"a1"}

(***************************************************************************)
(* File names.  A file name is the sequence of its '/'-separated parts.    *)
(***************************************************************************)
Filenames == {<<"a.txt">>, <<"b.md">>, <<"d", "a.txt">>}

\* os.path.basename of a key or of a file name.
basename(path) == <<path[Len(path)]>>

\* The text after the last '.' of a path component, lower-cased
\* (str.lower() followed by str.endswith in _get_training_files).
LowerExtension(component) ==
    CASE component = "a.txt" -> "txt"
      [] component = "b.md" -> "md"
      [] component = "adapter_config.json" -> "json"
      [] component = "adapter_model.bin" -> "bin"
      [] OTHER -> ""

IsPrefix(p, k) == Len(p) <= Len(k) /\ SubSeq(k, 1, Len(p)) = p

(***************************************************************************)
(* The path scheme of AdapterPersistenceManager.                           *)
(***************************************************************************)
get_s3_adapter_path(u, a) == <<"users", u, "avatars", a, "adapters">>

get_s3_training_data_path(u, a) == get_s3_adapter_path(u, a) \o <<"training_data">>

get_s3_metadata_path(u, a) == get_s3_adapter_path(u, a) \o <<"metadata">>

AdapterBackupKey(u, a) == get_s3_adapter_path(u, a) \o <<"adapter_backup.zip">>

BackupMetadataKey(u, a) == get_s3_adapter_path(u, a) \o <<"backup_metadata.json">>

LedgerKey(u, a) == get_s3_metadata_path(u, a) \o <<"metadata.json">>

TrainingFileKey(u, a, f) == get_s3_training_data_path(u, a) \o f

\* The two keys of backup_training_data_to_s3, under the training-data
\* prefix.
TrainingBackupKey(u, a) ==
    get_s3_training_data_path(u, a) \o <<"training_data_backup.zip">>

TrainingBackupMetadataKey(u, a) ==
    get_s3_training_data_path(u, a) \o <<"backup_metadata.json">>

\* Every key an operation of the model can address.
AllKeys ==
    UNION {
        {AdapterBackupKey(u, a), BackupMetadataKey(u, a), LedgerKey(u, a),
         TrainingBackupKey(u, a), TrainingBackupMetadataKey(u, a)}
            \cup {TrainingFileKey(u, a, f) : f \in Filenames}
        : u \in Users, a \in Avatars}

(***************************************************************************)
(* The object store.                                                       *)
(***************************************************************************)
NoObject == [kind |-> "none"]

EmptyStore == [k \in AllKeys |-> NoObject]

\* Keys relative to adapters/, in the UTF-8 binary order in which the store
\* lists them.
ListingOrder ==
    << <<"adapter_backup.zip">>,
       <<"backup_metadata.json">>,
       <<"metadata", "metadata.json">>,
       <<"training_data", "a.txt">>,
       <<"training_data", "b.md">>,
       <<"training_data", "backup_metadata.json">>,
       <<"training_data", "d", "a.txt">>,
       <<"training_data", "training_data_backup.zip">> >>

RelativePath(k) == SubSeq(k, 6, Len(k))

Rank(k) == CHOOSE i \in 1..Len(ListingOrder) : ListingOrder[i] = RelativePath(k)

\* A list_objects_v2 call without a continuation token returns one page:
\* the first MaxKeys keys under the prefix.  The store's page holds 1000
\* keys; the model scales the page to MaxKeys.
MaxKeys == 4

\* response['Contents'] of list_objects_v2(Prefix = prefix), as a set of
\* keys; the empty set stands for a response without 'Contents'.
list_objects_v2(s, prefix) ==
    LET matching == {k \in AllKeys : s[k] # NoObject /\ IsPrefix(prefix, k)}
    IN  {k \in matching :
            Cardinality({j \in matching : Rank(j) < Rank(k)}) < MaxKeys}

\* head_object: "200" when the object is there, "404" when it is not, and
\* "error" when the call itself fails (connectivity, permissions).
head_object(s, k, fault) ==
    IF fault THEN "error" ELSE IF s[k] # NoObject THEN "200" ELSE "404"

\* delete_objects / delete_object.
delete_objects(s, keys) == [k \in AllKeys |-> IF k \in keys THEN NoObject ELSE s[k]]

put_object(s, k, obj) == [s EXCEPT ![k] = obj]

(***************************************************************************)
(* Local directories and archives.                                         *)
(***************************************************************************)
\* A directory: whether it exists, its files by relative path, its empty
\* sub-directories, and the time its files were written.
NoDir == [exists |-> FALSE, files |-> <<>>, emptydirs |-> {}, mtime |-> 0]

EmptyDir == [exists |-> TRUE, files |-> <<>>, emptydirs |-> {}, mtime |-> 0]

\* ZipDirectory with each file stored under its base name instead of its
\* path relative to the root.
ZipDirectoryFlat(dir) ==
    [kind |-> "zip",
     entries |-> [q \in {basename(p) : p \in DOMAIN dir.files} |->
                    dir.files[CHOOSE p \in DOMAIN dir.files : basename(p) = q]],
     mtime |-> dir.mtime]

\* The archive backup_adapters_to_s3 builds: os.walk visits every directory
\* and zipf.write stores each of its files under its path relative to the
\* root.  Directories themselves are not stored.
ZipDirectory(dir) ==
    [kind |-> "zip",
     entries |-> [p \in DOMAIN dir.files |-> dir.files[p]],
     mtime |-> dir.mtime]

\* zipf.extractall(target): every entry is written under the target, over a
\* file of the same path; what else the target holds stays.
ExtractAll(archive, target, now) ==
    [exists |-> TRUE,
     files |-> [p \in DOMAIN target.files \cup DOMAIN archive.entries |->
                   IF p \in DOMAIN archive.entries
                   THEN archive.entries[p]
                   ELSE target.files[p]],
     emptydirs |-> target.emptydirs,
     mtime |-> now]

\* sum([len(files) for _, _, files in os.walk(path)])
FileCount(dir) == Cardinality(DOMAIN dir.files)

(***************************************************************************)
(* AdapterPersistenceManager: backup, restore, exists, create, delete.     *)
(***************************************************************************)
\* The side-car document of a backup.  backup_size_bytes is the size of the
\* archive file and is determined by the archive; it is not kept apart.
BackupMetadata(u, a, dir, now) ==
    [kind |-> "json",
     backup_type |-> "adapters",
     user_id |-> u,
     avatar_id |-> a,
     backup_timestamp |-> now,
     file_count |-> FileCount(dir)]

\* The store after backup_adapters_to_s3(dir) of an existing directory:
\* upload_file of the archive, then put_object of the side-car.
backup_adapters_to_s3(s, u, a, dir, now) ==
    put_object(put_object(s, AdapterBackupKey(u, a), ZipDirectory(dir)),
               BackupMetadataKey(u, a), BackupMetadata(u, a, dir, now))

\* The side-car document of a training-data backup.
TrainingBackupMetadata(u, a, dir, now) ==
    [kind |-> "json",
     backup_type |-> "training_data",
     user_id |-> u,
     avatar_id |-> a,
     backup_timestamp |-> now,
     file_count |-> FileCount(dir)]

\* The store after backup_training_data_to_s3(dir) of an existing
\* directory: upload_file of the archive, then put_object of the side-car,
\* both under the training-data prefix.
backup_training_data_to_s3(s, u, a, dir, now) ==
    put_object(put_object(s, TrainingBackupKey(u, a), ZipDirectory(dir)),
               TrainingBackupMetadataKey(u, a), TrainingBackupMetadata(u, a, dir, now))

\* How restore_adapters_from_s3 ends, from its head_object probe: a 404
\* becomes HTTPException(404), any other ClientError is re-raised as it is.
RestoreStatus(s, u, a, fault) ==
    LET head == head_object(s, AdapterBackupKey(u, a), fault)
    IN  IF head = "404" THEN "NotFound404"
        ELSE IF head = "error" THEN "ClientError"
        ELSE "ok"

\* The target directory after a restore that found the archive:
\* os.makedirs(target, exist_ok=True), download, extractall.
restore_adapters_from_s3(s, u, a, target, now) ==
    ExtractAll(s[AdapterBackupKey(u, a)], target, now)

\* adapter_exists answering False only for a missing object: any other
\* failure of the probe counts as present.
adapter_exists_unless_404(s, u, a, fault) ==
    head_object(s, AdapterBackupKey(u, a), fault) # "404"

\* adapter_exists: True when head_object returns, False on any exception.
adapter_exists(s, u, a, fault) ==
    head_object(s, AdapterBackupKey(u, a), fault) = "200"

\* The document create_adapter writes first to adapter_config.json.
AdapterConfigDoc(name, u, a, now) ==
    [adapter_name |-> name,
     user_id |-> u,
     avatar_id |-> a,
     created_at |-> now,
     version |-> "1.0.0",
     status |-> "untrained",
     training_history |-> <<>>]

\* lora_structure: the placeholder files create_adapter writes afterwards.
LoraStructure ==
    (<<"adapter_model.bin">> :> [raw |-> ""])
    @@ (<<"adapter_config.json">> :>
            [target_modules |-> <<"q_proj", "v_proj">>,
             r |-> 16,
             lora_alpha |-> 32,
             lora_dropout |-> "0.1"])

\* The bundle directory create_adapter builds: the configuration document is
\* written to adapter_config.json, then every file of lora_structure is
\* written, the later write of a path replacing the earlier one.
FreshBundle(name, u, a, now) ==
    [exists |-> TRUE,
     files |-> LoraStructure
               @@ (<<"adapter_config.json">> :> AdapterConfigDoc(name, u, a, now)),
     emptydirs |-> {},
     mtime |-> now]

\* AdapterPersistenceManager.create_adapter of the manager for (u, a).
ManagerCreateAdapter(u, a, name, fault) ==
    IF adapter_exists(store, u, a, fault)
    THEN /\ last' = [op |-> "create_adapter", entry |-> "manager", user |-> u,
                     avatar |-> a, status |-> "existing", fault |-> fault]
         /\ UNCHANGED <<store, clock, local>>
    ELSE /\ clock < MaxClock
         /\ store' = backup_adapters_to_s3(store, u, a,
                                           FreshBundle(name, u, a, clock), clock)
         /\ clock' = clock + 1
         /\ last' = [op |-> "create_adapter", entry |-> "manager", user |-> u,
                     avatar |-> a, status |-> "created", fault |-> fault]
         /\ UNCHANGED local

\* AdapterPersistenceManager.delete_adapter: the HTTPException(404) raised
\* inside the try block is caught by its own "except Exception" and leaves
\* as HTTPException(500).
ManagerDeleteAdapter(u, a) ==
    LET contents == list_objects_v2(store, get_s3_adapter_path(u, a))
    IN  IF contents = {}
        THEN /\ last' = [op |-> "delete_adapter", entry |-> "manager", user |-> u,
                         avatar |-> a, status |-> "500", deleted_objects |-> 0]
             /\ UNCHANGED <<store, clock, local>>
        ELSE /\ store' = delete_objects(store, contents)
             /\ last' = [op |-> "delete_adapter", entry |-> "manager", user |-> u,
                         avatar |-> a, status |-> "success",
                         deleted_objects |-> Cardinality(contents)]
             /\ UNCHANGED <<clock, local>>

\* AdapterPersistenceManager.backup_adapters_to_s3 on the caller's
\* directory d.
BackupAdapters(u, a, d) ==
    IF ~local[d].exists
    THEN /\ last' = [op |-> "backup_adapters_to_s3", user |-> u, avatar |-> a,
                     dir |-> d, status |-> "NotFound404"]
         /\ UNCHANGED <<store, clock, local>>
    ELSE /\ clock < MaxClock
         /\ store' = backup_adapters_to_s3(store, u, a, local[d], clock)
         /\ clock' = clock + 1
         /\ last' = [op |-> "backup_adapters_to_s3", user |-> u, avatar |-> a,
                     dir |-> d, status |-> "ok"]
         /\ UNCHANGED local

\* RestoreAdapters with os.makedirs moved before the head_object probe.
RestoreAdaptersMakedirsFirst(u, a, d, fault) ==
    LET status == RestoreStatus(store, u, a, fault)
    IN  /\ last' = [op |-> "restore_adapters_from_s3", user |-> u, avatar |-> a,
                    dir |-> d, status |-> status, fault |-> fault]
        /\ local' = IF status = "ok"
                    THEN [local EXCEPT
                            ![d] = restore_adapters_from_s3(store, u, a, local[d], clock)]
                    ELSE [local EXCEPT ![d].exists = TRUE]
        /\ UNCHANGED <<store, clock>>

\* AdapterPersistenceManager.restore_adapters_from_s3 into the caller's
\* directory d.
RestoreAdapters(u, a, d, fault) ==
    LET status == RestoreStatus(store, u, a, fault)
    IN  /\ last' = [op |-> "restore_adapters_from_s3", user |-> u, avatar |-> a,
                    dir |-> d, status |-> status, fault |-> fault]
        /\ local' = IF status = "ok"
                    THEN [local EXCEPT
                            ![d] = restore_adapters_from_s3(store, u, a, local[d], clock)]
                    ELSE local
        /\ UNCHANGED <<store, clock>>

(***************************************************************************)
(* SpecZip: backup and restore of caller-owned directories.                *)
(***************************************************************************)
DirNames == {"D", "D2"}

RelFiles == {<<"adapter_config.json">>, <<"sub", "weights.bin">>}

Bytes == {[raw |-> "x"], [raw |-> "y"]}

\* Every directory over RelFiles and Bytes, with or without an empty
\* sub-directory.
SourceDirs ==
    {[exists |-> TRUE, files |-> f, emptydirs |-> e, mtime |-> 0] :
        f \in UNION {[ps -> Bytes] : ps \in SUBSET RelFiles},
        e \in {{}, {<<"empty">>}}}
    \cup {NoDir}

StaleDir ==
    [exists |-> TRUE, files |-> (<<"stale.bin">> :> [raw |-> "x"]),
     emptydirs |-> {}, mtime |-> 0]

InitZip ==
    /\ store = EmptyStore
    /\ clock = 1
    /\ \E d \in SourceDirs, d2 \in {NoDir, EmptyDir, StaleDir} :
          local = [n \in DirNames |-> IF n = "D" THEN d ELSE d2]
    /\ last = [op |-> "none"]

NextZip ==
    \E a \in Avatars, d \in DirNames, fault \in BOOLEAN :
        \/ BackupAdapters(USER_ID, a, d)
        \/ RestoreAdapters(USER_ID, a, d, fault)
        \/ ManagerCreateAdapter(USER_ID, a, "default", fault)
        \/ ManagerDeleteAdapter(USER_ID, a)

SpecZip == InitZip /\ [][NextZip]_vars

(***************************************************************************)
(* Training files and the ledger (metadata/metadata.json).                 *)
(***************************************************************************)
ContentTypes == {"text/plain"}

Bodies == {"data"}

\* The bodies validation tells apart: empty, a few bytes, more than 1024
\* bytes, more than 100 MiB.
SizedBodies == {"", "data", "kilobytes", "huge"}

\* len(body) in bytes, what the listing reports as obj['Size'].
BodySize(body) ==
    CASE body = "" -> 0
      [] body = "data" -> 4
      [] body = "kilobytes" -> 2048
      [] body = "huge" -> 100 * 1024 * 1024 + 1

\* The object upload stores under training_data/{filename}; upload_timestamp
\* is not kept, no operation reads it back into a decision.
Blob(u, a, f, body, ctype, flag) ==
    [kind |-> "blob",
     body |-> body,
     content_type |-> ctype,
     metadata |-> [user_id |-> u,
                   avatar_id |-> a,
                   original_filename |-> f,
                   use_for_training |-> IF flag THEN "True" ELSE "False"]]

\* The ledger document: file name -> use_for_training.
Ledger(flags) == [kind |-> "ledger", flags |-> flags]

EmptyDict == [f \in {} |-> FALSE]

\* dict.get(key, default)
Get(dict, key, default) == IF key \in DOMAIN dict THEN dict[key] ELSE default

\* A write of the one entry instead of the whole dict.
SetAlone(dict, key, value) == [f \in {key} |-> value]

\* dict[key] = value
Set(dict, key, value) ==
    [f \in DOMAIN dict \cup {key} |-> IF f = key THEN value ELSE dict[f]]

\* {k: v for k, v in dict.items() if k not in removed}
Without(dict, removed) == [f \in DOMAIN dict \ removed |-> dict[f]]

\* get_object of the ledger followed by json.loads, with the "except: {}"
\* that _get_training_metadata and the upload / update handlers share: a
\* missing ledger and a failed read both give the empty dict.
get_training_metadata(s, u, a, fault) ==
    IF fault \/ s[LedgerKey(u, a)] = NoObject
    THEN EmptyDict
    ELSE s[LedgerKey(u, a)].flags

\* The file names with a blob under the training-data prefix of (u, a).
StoredFiles(s, u, a) == {f \in Filenames : s[TrainingFileKey(u, a, f)] # NoObject}

\* Whether the ledger read raises: the object is missing or the call fails.
LedgerReadFails(s, u, a, fault) == fault \/ s[LedgerKey(u, a)] = NoObject

\* obj['Key'].endswith('/')
IsDirectoryLike(k) == k[Len(k)] = ""

\* get_training_files_for_training without the test of the flag: every
\* file name of the ledger.
get_training_files_ignoring_flag(s, u, a, fault) ==
    DOMAIN get_training_metadata(s, u, a, fault)

\* get_training_files_for_training that consults the blobs: the flagged
\* file names that are stored.
get_stored_training_files_for_training(s, u, a, fault) ==
    LET training_metadata == get_training_metadata(s, u, a, fault)
    IN  {f \in DOMAIN training_metadata \cap StoredFiles(s, u, a) : training_metadata[f]}

\* AdapterPersistenceManager.get_training_files_for_training
get_training_files_for_training(s, u, a, fault) ==
    LET training_metadata == get_training_metadata(s, u, a, fault)
    IN  {f \in DOMAIN training_metadata : training_metadata[f]}

\* obj['Size'] of a listed object.  An object stored by a backup has the
\* size of its archive or document, which is never 0; the model keeps one
\* size for all of them.
BackupObjectSize == 22

ObjectSize(obj) ==
    IF "body" \in DOMAIN obj THEN BodySize(obj.body) ELSE BackupObjectSize

\* head_response['Metadata']: the user metadata of an object, empty for an
\* object stored without any.
UserMetadata(obj) ==
    IF "metadata" \in DOMAIN obj THEN obj.metadata ELSE <<>>

\* AdapterPersistenceManager.list_training_files (and the list handler):
\* the records of files_list.  training_only is "None", "True" or "False".
\* The listing's per-object probe takes head_response['Metadata'], the user
\* metadata of the object, and reads its 'content-type' entry.
list_training_files(s, u, a, training_only, fault) ==
    LET training_metadata == get_training_metadata(s, u, a, fault)
        contents == list_objects_v2(s, get_s3_training_data_path(u, a))
        flag(k) == Get(training_metadata, basename(k), FALSE)
    IN  {[filename |-> basename(k),
          use_for_training |-> flag(k),
          file_size |-> ObjectSize(s[k]),
          content_type |-> IF "content-type" \in DOMAIN UserMetadata(s[k])
                           THEN UserMetadata(s[k])["content-type"]
                           ELSE "unknown",
          s3_key |-> k] :
            k \in {c \in contents :
                     /\ ~IsDirectoryLike(c)
                     /\ ~(training_only = "True" /\ ~flag(c))
                     /\ ~(training_only = "False" /\ flag(c))}}

\* The store after the two writes of an upload: the blob, then the whole
\* ledger with the entry of the file set.
upload_training_file(s, u, a, f, body, ctype, flag, fault) ==
    LET s1 == put_object(s, TrainingFileKey(u, a, f), Blob(u, a, f, body, ctype, flag))
        metadata == Set(get_training_metadata(s1, u, a, fault), f, flag)
    IN  put_object(s1, LedgerKey(u, a), Ledger(metadata))

\* POST /{user_id}/{avatar_id}/upload
ApiUploadTrainingData(u, a, f, body, ctype, flag, fault) ==
    /\ store' = upload_training_file(store, u, a, f, body, ctype, flag, fault)
    /\ last' = [op |-> "upload_training_data", user |-> u, avatar |-> a,
                filename |-> f, status |-> "success"]
    /\ UNCHANGED <<clock, local>>

\* update_training_flag without the existence check: the ledger is read,
\* set and written whether or not the blob is stored.
ApiUpdateTrainingFlagUnchecked(u, a, f, flag, fault) ==
    LET metadata == get_training_metadata(store, u, a, fault)
    IN  /\ store' = put_object(store, LedgerKey(u, a), Ledger(Set(metadata, f, flag)))
        /\ last' = [op |-> "update_training_flag", user |-> u, avatar |-> a,
                    filename |-> f, use_for_training |-> flag,
                    status |-> "success", metadata |-> metadata,
                    old_value |-> Get(metadata, f, FALSE),
                    new_value |-> flag, fault |-> fault]
        /\ UNCHANGED <<clock, local>>

\* PUT /{user_id}/{avatar_id}/{file_name}/training-flag: the 404 of the
\* existence check is raised inside the handler's try block and leaves as 500.
ApiUpdateTrainingFlag(u, a, f, flag, fault) ==
    IF head_object(store, TrainingFileKey(u, a, f), FALSE) # "200"
    THEN /\ last' = [op |-> "update_training_flag", user |-> u, avatar |-> a,
                     filename |-> f, use_for_training |-> flag,
                     status |-> "500", fault |-> fault]
         /\ UNCHANGED <<store, clock, local>>
    ELSE LET metadata == get_training_metadata(store, u, a, fault)
         IN  /\ store' = put_object(store, LedgerKey(u, a),
                                    Ledger(Set(metadata, f, flag)))
             /\ last' = [op |-> "update_training_flag", user |-> u, avatar |-> a,
                         filename |-> f, use_for_training |-> flag,
                         status |-> "success", metadata |-> metadata,
                         old_value |-> Get(metadata, f, FALSE),
                         new_value |-> flag, fault |-> fault]
             /\ UNCHANGED <<clock, local>>

\* delete_training_file whose ledger failure is raised instead of logged:
\* the blob is deleted and the request fails.
ApiDeleteTrainingFileStrict(u, a, f, fault) ==
    IF head_object(store, TrainingFileKey(u, a, f), FALSE) # "200"
    THEN /\ last' = [op |-> "delete_training_file", user |-> u, avatar |-> a,
                     filename |-> f, status |-> "500", fault |-> fault]
         /\ UNCHANGED <<store, clock, local>>
    ELSE LET s1 == delete_objects(store, {TrainingFileKey(u, a, f)})
             metadata == get_training_metadata(s1, u, a, fault)
         IN  /\ store' = IF ~LedgerReadFails(s1, u, a, fault) /\ f \in DOMAIN metadata
                         THEN put_object(s1, LedgerKey(u, a),
                                         Ledger(Without(metadata, {f})))
                         ELSE s1
             /\ last' = [op |-> "delete_training_file", user |-> u, avatar |-> a,
                         filename |-> f,
                         status |-> IF LedgerReadFails(s1, u, a, fault)
                                    THEN "500" ELSE "success",
                         fault |-> fault]
             /\ UNCHANGED <<clock, local>>

\* DELETE /{user_id}/{avatar_id}/{file_name}
ApiDeleteTrainingFile(u, a, f, fault) ==
    IF head_object(store, TrainingFileKey(u, a, f), FALSE) # "200"
    THEN /\ last' = [op |-> "delete_training_file", user |-> u, avatar |-> a,
                     filename |-> f, status |-> "500", fault |-> fault]
         /\ UNCHANGED <<store, clock, local>>
    ELSE LET s1 == delete_objects(store, {TrainingFileKey(u, a, f)})
             metadata == get_training_metadata(s1, u, a, fault)
         IN  /\ store' = IF ~LedgerReadFails(s1, u, a, fault) /\ f \in DOMAIN metadata
                         THEN put_object(s1, LedgerKey(u, a),
                                         Ledger(Without(metadata, {f})))
                         ELSE s1
             /\ last' = [op |-> "delete_training_file", user |-> u, avatar |-> a,
                         filename |-> f, status |-> "success", fault |-> fault]
             /\ UNCHANGED <<clock, local>>

\* The keys delete_non_training_files marks for deletion: the listed keys
\* whose base name the ledger does not flag.
files_to_delete(s, u, a, training_metadata) ==
    {k \in list_objects_v2(s, get_s3_training_data_path(u, a)) :
        /\ ~IsDirectoryLike(k)
        /\ ~Get(training_metadata, basename(k), FALSE)}

\* A handler without the early return: a failed ledger read is taken as the empty
\* dict and the handler goes on to list and delete.
ReturnsEarlyNever(s, u, a, fault) == FALSE

\* Whether delete_non_training_files returns before listing: the ledger
\* read raised.
ReturnsEarly(s, u, a, fault) == LedgerReadFails(s, u, a, fault)

\* DELETE /{user_id}/{avatar_id}/non-training-files
ApiDeleteNonTrainingFiles(u, a, fault) ==
    IF ReturnsEarly(store, u, a, fault)
    THEN /\ last' = [op |-> "delete_non_training_files", user |-> u, avatar |-> a,
                     status |-> "success", message |-> "No metadata found",
                     training_metadata |-> EmptyDict,
                     deleted_files |-> {}, fault |-> fault]
         /\ UNCHANGED <<store, clock, local>>
    ELSE LET training_metadata == get_training_metadata(store, u, a, fault)
             to_delete == files_to_delete(store, u, a, training_metadata)
             deleted_files == {basename(k) : k \in to_delete}
         IN  /\ store' = IF to_delete # {}
                         THEN put_object(delete_objects(store, to_delete),
                                         LedgerKey(u, a),
                                         Ledger(Without(training_metadata, deleted_files)))
                         ELSE store
             /\ last' = [op |-> "delete_non_training_files", user |-> u, avatar |-> a,
                         status |-> "success", message |-> "Deleted",
                         training_metadata |-> training_metadata,
                         deleted_files |-> deleted_files, fault |-> fault]
             /\ UNCHANGED <<clock, local>>

\* DELETE /adapters/{user_id}/{avatar_id}: as the manager's delete_adapter,
\* under the prefix built from the request's user_id.
ApiDeleteAdapter(u, a) ==
    LET contents == list_objects_v2(store, get_s3_adapter_path(u, a))
    IN  IF contents = {}
        THEN /\ last' = [op |-> "delete_adapter", entry |-> "api", user |-> u,
                         avatar |-> a, status |-> "500", deleted_objects |-> 0]
             /\ UNCHANGED <<store, clock, local>>
        ELSE /\ store' = delete_objects(store, contents)
             /\ last' = [op |-> "delete_adapter", entry |-> "api", user |-> u,
                         avatar |-> a, status |-> "success",
                         deleted_objects |-> Cardinality(contents)]
             /\ UNCHANGED <<clock, local>>

(***************************************************************************)
(* SpecData: the training-data handlers, create and the destructive        *)
(* delete, for requests whose user_id is the configured USER_ID.           *)
(***************************************************************************)
Unused == [n \in DirNames |-> NoDir]

InitData ==
    /\ store = EmptyStore
    /\ clock = 1
    /\ local = Unused
    /\ last = [op |-> "none"]

NextData ==
    \E a \in Avatars :
        \/ \E f \in Filenames, flag \in BOOLEAN, fault \in BOOLEAN,
              body \in Bodies, ctype \in ContentTypes :
              ApiUploadTrainingData(USER_ID, a, f, body, ctype, flag, fault)
        \/ \E f \in Filenames, flag \in BOOLEAN, fault \in BOOLEAN :
              ApiUpdateTrainingFlag(USER_ID, a, f, flag, fault)
        \/ \E f \in Filenames, fault \in BOOLEAN :
              ApiDeleteTrainingFile(USER_ID, a, f, fault)
        \/ \E fault \in BOOLEAN : ApiDeleteNonTrainingFiles(USER_ID, a, fault)
        \/ ApiDeleteAdapter(USER_ID, a)
        \/ \E fault \in BOOLEAN : ManagerCreateAdapter(USER_ID, a, "default", fault)

SpecData == InitData /\ [][NextData]_vars

(***************************************************************************)
(* POST /adapters/{user_id}/{avatar_id}/create.                            *)
(***************************************************************************)
\* obj['Key'].endswith('adapter_backup.zip')
EndsWithArchiveName(k) == k[Len(k)] = "adapter_backup.zip"

\* The existence check of the handler: one listing of the prefix built from
\* the request's user_id; a failed listing is logged and counts as "no
\* adapter".
ApiAdapterExists(s, u, a, fault) ==
    /\ ~fault
    /\ \E k \in list_objects_v2(s, get_s3_adapter_path(u, a)) : EndsWithArchiveName(k)

\* The user the handler's persistence manager is built for:
\* get_adapter_persistence_manager(avatar_id) takes it from the settings,
\* not from the request.
ManagerUser(u) == USER_ID

ApiCreateAdapter(u, a, name, fault) ==
    IF ApiAdapterExists(store, u, a, fault)
    THEN /\ last' = [op |-> "create_adapter", entry |-> "api", user |-> u,
                     avatar |-> a, status |-> "existing", fault |-> fault]
         /\ UNCHANGED <<store, clock, local>>
    ELSE /\ clock < MaxClock
         /\ store' = backup_adapters_to_s3(store, ManagerUser(u), a,
                                           FreshBundle(name, u, a, clock), clock)
         /\ clock' = clock + 1
         /\ last' = [op |-> "create_adapter", entry |-> "api", user |-> u,
                     avatar |-> a, status |-> "created", fault |-> fault]
         /\ UNCHANGED local

\* AdapterPersistenceManager.adapter_exists called on the manager for
\* (u, a): the probe runs inside try/except Exception, True after a probe
\* that returned, False after one that raised; nothing is written.
AdapterExists(u, a, fault) ==
    /\ last' = [op |-> "adapter_exists", user |-> u, avatar |-> a,
                fault |-> fault, result |-> adapter_exists(store, u, a, fault)]
    /\ UNCHANGED <<store, clock, local>>

(***************************************************************************)
(* SpecCreate: create and delete through both entry points, for requests   *)
(* of any user, with uploads filling the prefixes.                         *)
(***************************************************************************)
InitCreate ==
    /\ store = EmptyStore
    /\ clock = 1
    /\ local = Unused
    /\ last = [op |-> "none"]

NextCreate ==
    \E a \in Avatars :
        \/ \E u \in Users, fault \in BOOLEAN : ApiCreateAdapter(u, a, "default", fault)
        \/ \E fault \in BOOLEAN : ManagerCreateAdapter(USER_ID, a, "default", fault)
        \/ \E u \in Users : ApiDeleteAdapter(u, a)
        \/ ManagerDeleteAdapter(USER_ID, a)
        \/ \E u \in Users, f \in Filenames, body \in Bodies, ctype \in ContentTypes :
              ApiUploadTrainingData(u, a, f, body, ctype, TRUE, FALSE)
        \/ \E fault \in BOOLEAN : AdapterExists(USER_ID, a, fault)

SpecCreate == InitCreate /\ [][NextCreate]_vars

(***************************************************************************)
(* TrainingService.train_lora_adapter on a restored bundle.                *)
(***************************************************************************)
\* dict.update(other)
Upd(dict, other) ==
    [k \in DOMAIN dict \cup DOMAIN other |->
        IF k \in DOMAIN other THEN other[k] ELSE dict[k]]

\* The training_params argument: None, or a dict.
NoneParams == [is_none |-> TRUE]

DictParams(dict) == [is_none |-> FALSE, dict |-> dict]

\* training_params or {}
OrEmpty(training_params) ==
    IF training_params.is_none THEN DictParams(EmptyDict) ELSE training_params

default_training_params ==
    [learning_rate |-> "2e-4", num_epochs |-> 3, batch_size |-> 4,
     gradient_accumulation_steps |-> 4, warmup_steps |-> 100,
     max_seq_length |-> 512, save_steps |-> 500, logging_steps |-> 10]

SupportedExtensions == {"txt", "json", "jsonl", "csv"}

\* _get_training_files: the files of the scratch directory whose lower-cased
\* name ends with a supported extension.
get_training_files(downloaded) ==
    {f \in downloaded : LowerExtension(f[1]) \in SupportedExtensions}

Max(x, y) == IF x >= y THEN x ELSE y

\* _prepare_training_data: every file of the model is a few bytes long and
\* counts as one sample.
estimated_steps(training_files, params) ==
    Max(1, Cardinality(training_files) \div params.batch_size)

\* _simulate_training raises when total_steps gives an empty range: the
\* convergence entry reads metrics_history[-1].
SimulationRaises(total_steps) == total_steps <= 0

ConfigPath == <<"adapter_config.json">>

ModelPath == <<"adapter_model.bin">>

\* _update_adapter_post_training: the bundle files after a successful run.
\* training_duration is a wall-clock measurement and is not kept.
update_adapter_post_training(files, training_files, total_steps, now) ==
    LET metrics == [steps |-> total_steps,
                    samples_processed |-> Cardinality(training_files)]
        config == IF ConfigPath \in DOMAIN files
                  THEN (ConfigPath :>
                          Upd(files[ConfigPath],
                              [status |-> "trained",
                               last_training |-> now,
                               training_files_used |-> training_files,
                               training_metrics |-> [latest |-> metrics]]))
                  ELSE <<>>
        model == (ModelPath :> [model_state |-> "trained",
                                training_timestamp |-> now,
                                training_metrics |-> metrics,
                                model_version |-> "1.0.0"])
    IN  model @@ config @@ files

\* The record train_lora_adapter returns and the bundle files it leaves.
\* The adapter and training directories exist whenever it is called here.
\* Every exception ends in the failure record; nothing is raised.
train_lora_adapter(files, downloaded, training_params, now) ==
    IF training_params.is_none
    THEN [result |-> [success |-> FALSE, error |-> "TypeError"], files |-> files]
    ELSE LET params == Upd(default_training_params, training_params.dict)
             training_files == get_training_files(downloaded)
         IN  IF training_files = {}
             THEN [result |-> [success |-> FALSE, error |-> "No training files found"],
                   files |-> files]
             ELSE IF params.batch_size = 0
             THEN [result |-> [success |-> FALSE, error |-> "ZeroDivisionError"],
                   files |-> files]
             ELSE LET total_steps == estimated_steps(training_files, params)
                                        * params.num_epochs
                  IN  IF SimulationRaises(total_steps)
                      THEN [result |-> [success |-> FALSE, error |-> "IndexError"],
                            files |-> files]
                      ELSE [result |-> [success |-> TRUE,
                                        training_files |-> training_files,
                                        training_params |-> params,
                                        steps_completed |-> total_steps],
                            files |-> update_adapter_post_training(
                                          files, training_files, total_steps, now)]

(***************************************************************************)
(* The two training orchestrators.                                         *)
(***************************************************************************)
\* os.path.join(local_training_path, filename) can be written only when its
\* directory exists: the scratch directory has no sub-directories.
LocalPathWritable(f) == Len(f) = 1

\* The training_history of a configuration document ([] when it has none).
HistoryOf(config) ==
    IF "training_history" \in DOMAIN config THEN config.training_history ELSE <<>>

\* train_adapter, lines 196-222: the update of the configuration document
\* after train_lora_adapter has returned, whatever it returned.
ApiRecordTraining(files, training_files, training_params, result, now) ==
    IF ConfigPath \in DOMAIN files
    THEN LET config == Upd(files[ConfigPath],
                           [status |-> "trained",
                            last_training |-> now,
                            training_files_used |-> training_files,
                            training_result |-> result])
             entry == [timestamp |-> now,
                       files_used |-> training_files,
                       training_params |-> training_params,
                       result |-> result]
         IN  (ConfigPath :>
                Upd(config, [training_history |-> Append(HistoryOf(config), entry)]))
             @@ files
    ELSE files

\* train_adapter, lines 236-245: no training data was downloaded.
ApiRecordUntrained(files, now) ==
    IF ConfigPath \in DOMAIN files
    THEN (ConfigPath :> Upd(files[ConfigPath],
                            [status |-> "untrained", last_updated |-> now]))
         @@ files
    ELSE files

\* The store after the lazy creation of train_adapter: create_adapter(user_id,
\* avatar_id) is the handler above, called as a function.
ApiLazyCreate(s, u, a, now) ==
    IF ApiAdapterExists(s, u, a, FALSE)
    THEN s
    ELSE backup_adapters_to_s3(s, ManagerUser(u), a,
                               FreshBundle("default", u, a, now), now)

\* POST /adapters/{user_id}/{avatar_id}/train
ApiTrainAdapter(u, a, training_params, fault, restore_fault) ==
    LET mu == ManagerUser(u)
        training_files == get_training_files_for_training(store, u, a, fault)
        first == RestoreStatus(store, mu, a, restore_fault)
        lazy == first = "NotFound404"
        s1 == IF lazy THEN ApiLazyCreate(store, u, a, clock) ELSE store
        retry == IF lazy THEN RestoreStatus(s1, mu, a, FALSE) ELSE first
    IN  /\ clock < MaxClock
        /\ clock' = clock + 1
        /\ UNCHANGED local
        /\ IF retry # "ok"
           THEN /\ store' = s1
                /\ last' = [op |-> "train", entry |-> "api", user |-> u, avatar |-> a,
                            status |-> "500", restored |-> FALSE,
                            restore_status |-> first, create_called |-> lazy,
                            created |-> s1 # store,
                            training_files |-> training_files, downloaded |-> {},
                            invoked |-> FALSE,
                            success |-> FALSE, backed_up |-> FALSE, fault |-> fault]
           ELSE LET bundle == restore_adapters_from_s3(s1, mu, a, EmptyDir, clock)
                    downloaded == {f \in training_files :
                                     /\ s1[TrainingFileKey(u, a, f)] # NoObject
                                     /\ LocalPathWritable(f)}
                    invoked == training_files # {} /\ downloaded # {}
                    run == train_lora_adapter(bundle.files, downloaded,
                                              OrEmpty(training_params), clock)
                    files == IF invoked
                             THEN ApiRecordTraining(run.files, training_files,
                                                    training_params, run.result, clock)
                             ELSE ApiRecordUntrained(bundle.files, clock)
                IN  /\ Len(HistoryOf(files[ConfigPath])) <= MaxHistory
                    /\ store' = backup_adapters_to_s3(
                                    s1, mu, a, [bundle EXCEPT !.files = files], clock)
                    /\ last' = [op |-> "train", entry |-> "api", user |-> u,
                                avatar |-> a, status |-> "success",
                                restored |-> TRUE, restore_status |-> first,
                                create_called |-> lazy, created |-> s1 # store,
                                training_files |-> training_files,
                                downloaded |-> downloaded,
                                invoked |-> invoked,
                                success |-> invoked /\ run.result.success,
                                backed_up |-> TRUE, fault |-> fault]

\* get_training_file_download_url(filename) of the persistence manager
\* handed to train_with_persistence_manager.  The class under src/ has no
\* such method (has_method = FALSE: the call raises AttributeError for every
\* file).  Where the manager has it, it answers for a stored blob and raises
\* for a missing one, as the download handler does.
get_training_file_download_url(s, u, a, f, has_method) ==
    has_method /\ head_object(s, TrainingFileKey(u, a, f), FALSE) = "200"

\* The store after the lazy creation of train_with_persistence_manager:
\* persistence_manager.create_adapter().
ManagerLazyCreate(s, u, a, now) ==
    IF adapter_exists(s, u, a, FALSE)
    THEN s
    ELSE backup_adapters_to_s3(s, u, a, FreshBundle("default", u, a, now), now)

\* TrainingService.train_with_persistence_manager with the manager of
\* (u, a).  str404 is whether "404" occurs in str(e) of the HTTPException
\* restore raises: for the HTTPException of a missing archive the installed
\* framework version decides it, for any other exception its message does.
ServiceTrain(u, a, training_params, fault, restore_fault, str404, has_method) ==
    LET training_files == get_training_files_for_training(store, u, a, fault)
        first == RestoreStatus(store, u, a, restore_fault)
        lazy == training_files # {} /\ first # "ok" /\ str404
        s1 == IF lazy THEN ManagerLazyCreate(store, u, a, clock) ELSE store
        retry == IF lazy THEN RestoreStatus(s1, u, a, FALSE) ELSE first
        Return(s, restored, downloaded, invoked, backed_up, result) ==
            /\ store' = s
            /\ last' = [op |-> "train", entry |-> "service", user |-> u, avatar |-> a,
                        status |-> "returned", restored |-> restored,
                        restore_status |->
                            IF training_files = {} THEN "not attempted" ELSE first,
                        create_called |-> lazy,
                        created |-> s1 # store /\ s # store,
                        training_files |-> training_files,
                        downloaded |-> downloaded, invoked |-> invoked,
                        success |-> result.success, error |-> result.error,
                        backed_up |-> backed_up, fault |-> fault]
    IN  /\ clock < MaxClock
        /\ clock' = clock + 1
        /\ UNCHANGED local
        /\ IF training_files = {}
           THEN Return(store, FALSE, {}, FALSE, FALSE,
                       [success |-> FALSE, error |-> "No training files marked for training"])
           ELSE IF retry # "ok"
           THEN Return(s1, FALSE, {}, FALSE, FALSE, [success |-> FALSE, error |-> retry])
           ELSE LET bundle == restore_adapters_from_s3(s1, u, a, NoDir, clock)
                    downloaded == {f \in training_files :
                                     /\ get_training_file_download_url(s1, u, a, f, has_method)
                                     /\ LocalPathWritable(f)}
                    run == train_lora_adapter(bundle.files, downloaded,
                                              training_params, clock)
                IN  IF downloaded = {}
                    THEN Return(s1, TRUE, {}, FALSE, FALSE,
                                [success |-> FALSE,
                                 error |-> "Failed to download any training files"])
                    ELSE IF run.result.success
                    THEN Return(backup_adapters_to_s3(
                                    s1, u, a, [bundle EXCEPT !.files = run.files], clock),
                                TRUE, downloaded, TRUE, TRUE,
                                [success |-> TRUE, error |-> ""])
                    ELSE Return(s1, TRUE, downloaded, TRUE, FALSE, run.result)

(***************************************************************************)
(* SpecTrain: uploads and the two training orchestrators, for requests     *)
(* whose user_id is the configured USER_ID, with the persistence manager   *)
(* of src/.                                                                *)
(***************************************************************************)
\* training_params of train_with_persistence_manager (Dict[str, Any]).
DictTrainingParams == {DictParams(EmptyDict), DictParams([num_epochs |-> 0])}

\* training_params of train_adapter (Optional[Dict] = None).
TrainingParams == {NoneParams} \cup DictTrainingParams

InitTrain ==
    /\ store = EmptyStore
    /\ clock = 1
    /\ local = Unused
    /\ last = [op |-> "none"]

NextTrain ==
    \E a \in Avatars :
        \/ \E f \in Filenames, flag \in BOOLEAN, body \in Bodies, ctype \in ContentTypes :
              ApiUploadTrainingData(USER_ID, a, f, body, ctype, flag, FALSE)
        \/ \E training_params \in TrainingParams, fault \in BOOLEAN,
              restore_fault \in BOOLEAN :
              ApiTrainAdapter(USER_ID, a, training_params, fault, restore_fault)
        \/ \E training_params \in DictTrainingParams, fault \in BOOLEAN,
              restore_fault \in BOOLEAN, str404 \in BOOLEAN :
              ServiceTrain(USER_ID, a, training_params, fault, restore_fault,
                           str404, FALSE)

SpecTrain == InitTrain /\ [][NextTrain]_vars

(***************************************************************************)
(* SpecTrainUrl: SpecTrain with a persistence manager that may offer       *)
(* get_training_file_download_url.                                         *)
(***************************************************************************)
NextTrainUrl ==
    \E a \in Avatars :
        \/ \E f \in Filenames, flag \in BOOLEAN, body \in Bodies, ctype \in ContentTypes :
              ApiUploadTrainingData(USER_ID, a, f, body, ctype, flag, FALSE)
        \/ \E training_params \in TrainingParams, fault \in BOOLEAN,
              restore_fault \in BOOLEAN :
              ApiTrainAdapter(USER_ID, a, training_params, fault, restore_fault)
        \/ \E training_params \in DictTrainingParams, fault \in BOOLEAN,
              restore_fault \in BOOLEAN, str404 \in BOOLEAN, has_method \in BOOLEAN :
              ServiceTrain(USER_ID, a, training_params, fault, restore_fault,
                           str404, has_method)

SpecTrainUrl == InitTrain /\ [][NextTrainUrl]_vars

(***************************************************************************)
(* Claims about training (SpecTrain, SpecTrainUrl).                        *)
(***************************************************************************)
\* No entry of the stored ledger of (u, a) has the flag true; a missing
\* ledger has no entry.
NoFlaggedEntry(s, u, a) ==
    \/ s[LedgerKey(u, a)] = NoObject
    \/ \A f \in DOMAIN s[LedgerKey(u, a)].flags : ~s[LedgerKey(u, a)].flags[f]

\* The configuration document of the stored archive of (u, a).
StoredConfig(s, u, a) == s[AdapterBackupKey(u, a)].entries[ConfigPath]

\* The length of the training_history in the stored archive of (u, a); 0
\* when there is no archive or the document has no history.
StoredHistoryLen(s, u, a) ==
    IF s[AdapterBackupKey(u, a)] = NoObject
    THEN 0
    ELSE Len(HistoryOf(StoredConfig(s, u, a)))

\* The status in the stored archive of (u, a); "" when the document has none.
StoredStatus(s, u, a) ==
    IF "status" \in DOMAIN StoredConfig(s, u, a)
    THEN StoredConfig(s, u, a).status
    ELSE ""

\* C6: when the ledger has no entry whose flag is true, or is missing or
\* cannot be read, train_with_persistence_manager returns success=false
\* with the "no training files" result, without restore, create_adapter or
\* backup, and every object of the store is unchanged.
C6_NoFlaggedFilesNoSideEffects ==
    [][ (/\ last'.op = "train"
         /\ last'.entry = "service"
         /\ (last'.fault \/ NoFlaggedEntry(store, last'.user, last'.avatar)))
        => /\ ~last'.success
           /\ last'.error = "No training files marked for training"
           /\ ~last'.restored
           /\ ~last'.created
           /\ ~last'.invoked
           /\ ~last'.backed_up
           /\ store' = store
      ]_vars

\* C6 witness: the service has returned the "no training files" result for
\* an avatar with stored blobs, a ledger whose entries are all false, and no
\* archive.
C6_Witness ==
    /\ last.op = "train"
    /\ last.entry = "service"
    /\ ~last.fault
    /\ last.error = "No training files marked for training"
    /\ StoredFiles(store, last.user, last.avatar) # {}
    /\ store[LedgerKey(last.user, last.avatar)] # NoObject
    /\ DOMAIN store[LedgerKey(last.user, last.avatar)].flags # {}
    /\ NoFlaggedEntry(store, last.user, last.avatar)
    /\ store[AdapterBackupKey(last.user, last.avatar)] = NoObject

\* Some file of (u, a) is flagged in the ledger and its blob is stored.
HasFlaggedBlob(s, u, a) ==
    /\ s[LedgerKey(u, a)] # NoObject
    /\ \E f \in DOMAIN s[LedgerKey(u, a)].flags :
          /\ s[LedgerKey(u, a)].flags[f]
          /\ s[TrainingFileKey(u, a, f)] # NoObject

\* C7: for an avatar with a flagged file whose blob is stored, a training
\* run that invoked the training procedure and returned leaves, in the
\* stored archive, a training_history one entry longer than before the run
\* (0 before the first archive), whether the procedure reported success or
\* failure.
C7_HistoryGrowsByOne ==
    [][ (/\ last'.op = "train"
         /\ last'.invoked
         /\ ~last'.fault
         /\ HasFlaggedBlob(store, last'.user, last'.avatar))
        => /\ store'[AdapterBackupKey(last'.user, last'.avatar)] # NoObject
           /\ StoredHistoryLen(store', last'.user, last'.avatar)
                 = StoredHistoryLen(store, last'.user, last'.avatar) + 1
      ]_vars

\* C8: after a training run that invoked the training procedure, the status
\* in the stored adapter configuration is "trained" exactly when the
\* procedure returned success=true, and "training_failed" when it returned
\* success=false.
C8_StatusReflectsOutcome ==
    [][ (last'.op = "train" /\ last'.invoked)
        => LET status == StoredStatus(store', last'.user, last'.avatar)
           IN  /\ status = "trained" <=> last'.success
               /\ ~last'.success => status = "training_failed"
      ]_vars

\* C9: every run of a training orchestrator that invoked the training
\* procedure calls backup_adapters_to_s3 afterwards, on success=true and on
\* success=false, so the stored backup carries the time of the run.
C9_BackupRegardlessOfOutcome ==
    [][ (last'.op = "train" /\ last'.invoked)
        => /\ last'.backed_up
           /\ store'[BackupMetadataKey(last'.user, last'.avatar)] # NoObject
           /\ store'[BackupMetadataKey(last'.user, last'.avatar)].backup_timestamp = clock
      ]_vars

(***************************************************************************)
(* Claims about create (SpecCreate).                                       *)
(***************************************************************************)
\* C1: when create_adapter is called for a (user, avatar) directly after a
\* create_adapter call for the same (user, avatar), neither call meeting a
\* storage failure, the second call returns "existing" and every stored
\* adapter_backup.zip and backup_metadata.json is the object the first call
\* left.
C1_IdempotentCreate ==
    [][ (/\ last.op = "create_adapter"
         /\ last'.op = "create_adapter"
         /\ last'.user = last.user
         /\ last'.avatar = last.avatar
         /\ ~last.fault
         /\ ~last'.fault)
        => /\ last'.status = "existing"
           /\ \A u \in Users :
                 /\ store'[AdapterBackupKey(u, last'.avatar)]
                       = store[AdapterBackupKey(u, last'.avatar)]
                 /\ store'[BackupMetadataKey(u, last'.avatar)]
                       = store[BackupMetadataKey(u, last'.avatar)]
      ]_vars

(***************************************************************************)
(* Claims about the training-data handlers (SpecData).                     *)
(***************************************************************************)
\* C3: delete_non_training_files, with a readable ledger, keeps the blob of
\* every stored file whose ledger flag is true, deletes the blob of every
\* stored file whose flag is false or that has no ledger entry, returns
\* exactly the deleted files as deleted_files, and leaves a ledger in which
\* the only stored files with an entry are the flagged ones.
C3_DeleteNonTrainingCorrectness ==
    [][ (/\ last'.op = "delete_non_training_files"
         /\ ~last'.fault
         /\ store[LedgerKey(last'.user, last'.avatar)] # NoObject)
        => LET u == last'.user
               a == last'.avatar
               flags == store[LedgerKey(u, a)].flags
               stored == StoredFiles(store, u, a)
               flagged == {f \in stored : Get(flags, f, FALSE)}
           IN  /\ \A f \in flagged :
                     store'[TrainingFileKey(u, a, f)] = store[TrainingFileKey(u, a, f)]
               /\ \A f \in stored \ flagged :
                     store'[TrainingFileKey(u, a, f)] = NoObject
               /\ last'.deleted_files = stored \ flagged
               /\ \A f \in stored :
                     f \in DOMAIN store'[LedgerKey(u, a)].flags <=> f \in flagged
      ]_vars

\* C4 as stated: when the ledger is missing, or present but empty,
\* delete_non_training_files changes nothing in the store and returns an
\* empty deleted_files.
C4_NoOpWhenLedgerMissingOrEmpty ==
    [][ (/\ last'.op = "delete_non_training_files"
         /\ \/ store[LedgerKey(last'.user, last'.avatar)] = NoObject
            \/ store[LedgerKey(last'.user, last'.avatar)].flags = EmptyDict)
        => (store' = store /\ last'.deleted_files = {})
      ]_vars

\* C4 amended: delete_non_training_files is a no-op (store unchanged, empty
\* deleted_files) when the ledger object is missing or cannot be read, even
\* when blobs exist; when the ledger is present, readable and empty, every
\* blob listed under the training-data prefix is deleted and named in
\* deleted_files, and the ledger stays empty.
C4_NoOpOnlyWhenLedgerMissingOrUnreadable ==
    [][ (last'.op = "delete_non_training_files")
        => LET u == last'.user
               a == last'.avatar
               listed == list_objects_v2(store, get_s3_training_data_path(u, a))
           IN  /\ (store[LedgerKey(u, a)] = NoObject \/ last'.fault)
                    => (store' = store /\ last'.deleted_files = {})
               /\ (/\ store[LedgerKey(u, a)] # NoObject
                   /\ ~last'.fault
                   /\ store[LedgerKey(u, a)].flags = EmptyDict)
                    => /\ \A k \in listed : store'[k] = NoObject
                       /\ last'.deleted_files = {basename(k) : k \in listed}
                       /\ store'[LedgerKey(u, a)] = Ledger(EmptyDict)
                       /\ \A k \in AllKeys \ (listed \cup {LedgerKey(u, a)}) :
                             store'[k] = store[k]
      ]_vars

\* C4 witness: the handler has returned early on a missing ledger while
\* blobs are stored under the training-data prefix.
C4_Witness ==
    /\ last.op = "delete_non_training_files"
    /\ ~last.fault
    /\ last.message = "No metadata found"
    /\ store[LedgerKey(last.user, last.avatar)] = NoObject
    /\ StoredFiles(store, last.user, last.avatar) # {}

\* C5: after a delete_adapter that reports success, no object remains under
\* the avatar's adapters/ prefix, the listing of training files is empty and
\* so is the list of files flagged for training.
C5_DestructiveDeleteScope ==
    [][ (last'.op = "delete_adapter" /\ last'.status = "success")
        => LET u == last'.user
               a == last'.avatar
           IN  /\ \A k \in AllKeys :
                     IsPrefix(get_s3_adapter_path(u, a), k) => store'[k] = NoObject
               /\ list_training_files(store', u, a, "None", FALSE) = {}
               /\ get_training_files_for_training(store', u, a, FALSE) = {}
      ]_vars

(***************************************************************************)
(* Claims about backup and restore (SpecZip).                              *)
(***************************************************************************)
\* C2: a restore into an empty (or absent) directory that directly follows
\* a successful backup of directory D by the same manager leaves the target
\* with exactly D's relative file paths and D's bytes under each path.
C2_RestoreAfterBackupIsIdentity ==
    [][ ( /\ last.op = "backup_adapters_to_s3"
          /\ last.status = "ok"
          /\ last'.op = "restore_adapters_from_s3"
          /\ last'.status = "ok"
          /\ last'.user = last.user
          /\ last'.avatar = last.avatar
          /\ DOMAIN local[last'.dir].files = {}
          /\ local[last'.dir].emptydirs = {} )
        => ( /\ local'[last'.dir].exists
             /\ DOMAIN local'[last'.dir].files = DOMAIN local[last.dir].files
             /\ \A p \in DOMAIN local[last.dir].files :
                    local'[last'.dir].files[p] = local[last.dir].files[p] ) ]_vars

\* A restore into D2 has reproduced a two-file directory D, one of the files
\* in a sub-directory, through the stored archive.
C2_Witness ==
    /\ last.op = "restore_adapters_from_s3"
    /\ last.status = "ok"
    /\ last.dir = "D2"
    /\ store[AdapterBackupKey(last.user, last.avatar)] = ZipDirectory(local["D"])
    /\ DOMAIN local["D"].files = RelFiles
    /\ local["D2"].files = local["D"].files
    /\ local["D"].emptydirs # {}
    /\ local["D2"].emptydirs = {}

\* C10: a restore for an avatar whose adapter_backup.zip is absent never
\* succeeds and leaves every local directory and the store as they were; when
\* the store answers the probe it ends with the NotFound (404) condition.
C10_NotFoundOnMissingRestore ==
    [][ ( /\ last'.op = "restore_adapters_from_s3"
          /\ store[AdapterBackupKey(last'.user, last'.avatar)] = NoObject )
        => ( /\ last'.status # "ok"
             /\ (~last'.fault => last'.status = "NotFound404")
             /\ local' = local
             /\ store' = store ) ]_vars

\* A restore ended with NotFound and its target directory still does not
\* exist.
C10_Witness ==
    /\ last.op = "restore_adapters_from_s3"
    /\ last.status = "NotFound404"
    /\ store[AdapterBackupKey(last.user, last.avatar)] = NoObject
    /\ ~local[last.dir].exists

(***************************************************************************)
(* Claims about the destructive delete (SpecCreate).                       *)
(***************************************************************************)
\* Some object is stored under the adapters/ prefix of (u, a).
PrefixHoldsObject(s, u, a) ==
    \E k \in AllKeys : IsPrefix(get_s3_adapter_path(u, a), k) /\ s[k] # NoObject

\* C11: delete_adapter called when no object is stored under the adapter
\* prefix ends with the 404 outcome, not with the 500 outcome of a generic
\* failure, and leaves the store unchanged.
C11_DeleteMissingAdapterIsNotFound ==
    [][ (/\ last'.op = "delete_adapter"
         /\ ~PrefixHoldsObject(store, last'.user, last'.avatar))
        => (last'.status = "404" /\ store' = store)
      ]_vars

(***************************************************************************)
(* The read operations on training files, and SpecList: the training-data  *)
(* handlers with the reads, for requests of the configured USER_ID.        *)
(***************************************************************************)
TrainingOnly == {"None", "True", "False"}

\* list_training_files(training_only) of the manager, and GET .../list with
\* the same body for the request's user: the store is only read.
ListTrainingFiles(u, a, training_only, fault) ==
    /\ last' = [op |-> "list_training_files", user |-> u, avatar |-> a,
                training_only |-> training_only, fault |-> fault,
                result |-> list_training_files(store, u, a, training_only, fault)]
    /\ UNCHANGED <<store, clock, local>>

\* get_training_files_for_training() of the manager.
GetTrainingFilesForTraining(u, a, fault) ==
    /\ last' = [op |-> "get_training_files_for_training", user |-> u, avatar |-> a,
                fault |-> fault,
                result |-> get_training_files_for_training(store, u, a, fault)]
    /\ UNCHANGED <<store, clock, local>>

\* An upload that writes the ledger entry and stops before the blob is
\* stored.
UploadStopsBeforeBlob(u, a, f, body, ctype, flag) ==
    /\ store' = put_object(store, LedgerKey(u, a),
                           Ledger(Set(get_training_metadata(store, u, a, FALSE), f, flag)))
    /\ last' = [op |-> "upload_stopped", user |-> u, avatar |-> a,
                filename |-> f, use_for_training |-> flag, status |-> "500"]
    /\ UNCHANGED <<clock, local>>

\* An upload that stops between its two writes: put_object of the blob has
\* returned, and the ledger write raises or is never reached.  The caller
\* gets the 500 of the surrounding except, or no answer at all.
UploadStopsBeforeLedger(u, a, f, body, ctype, flag) ==
    /\ store' = put_object(store, TrainingFileKey(u, a, f),
                           Blob(u, a, f, body, ctype, flag))
    /\ last' = [op |-> "upload_stopped", user |-> u, avatar |-> a,
                filename |-> f, use_for_training |-> flag, status |-> "500"]
    /\ UNCHANGED <<clock, local>>

NextList ==
    \E a \in Avatars :
        \/ \E f \in Filenames, flag \in BOOLEAN, fault \in BOOLEAN,
              body \in Bodies, ctype \in ContentTypes :
              ApiUploadTrainingData(USER_ID, a, f, body, ctype, flag, fault)
        \/ \E f \in Filenames, flag \in BOOLEAN, fault \in BOOLEAN :
              ApiUpdateTrainingFlag(USER_ID, a, f, flag, fault)
        \/ \E f \in Filenames, fault \in BOOLEAN :
              ApiDeleteTrainingFile(USER_ID, a, f, fault)
        \/ \E fault \in BOOLEAN : ApiDeleteNonTrainingFiles(USER_ID, a, fault)
        \/ \E training_only \in TrainingOnly, fault \in BOOLEAN :
              ListTrainingFiles(USER_ID, a, training_only, fault)
        \/ \E fault \in BOOLEAN : GetTrainingFilesForTraining(USER_ID, a, fault)
        \/ \E f \in Filenames, flag \in BOOLEAN, body \in Bodies, ctype \in ContentTypes :
              UploadStopsBeforeLedger(USER_ID, a, f, body, ctype, flag)

SpecList == InitData /\ [][NextList]_vars

(***************************************************************************)
(* Claims about the reads (SpecList).                                      *)
(***************************************************************************)
\* The entries of the stored ledger of (u, a); none when it is missing.
StoredLedger(s, u, a) ==
    IF s[LedgerKey(u, a)] = NoObject THEN EmptyDict ELSE s[LedgerKey(u, a)].flags

\* C12: for every blob stored under the training-data prefix whose file name
\* has no ledger entry, list_training_files reports the blob with
\* use_for_training = false, and get_training_files_for_training does not
\* return the file name.
C12_LedgerDefault ==
    [][ (last'.op \in {"list_training_files", "get_training_files_for_training"})
        => \A f \in StoredFiles(store, last'.user, last'.avatar) :
              f \notin DOMAIN StoredLedger(store, last'.user, last'.avatar)
              => IF last'.op = "get_training_files_for_training"
                 THEN f \notin last'.result
                 ELSE last'.training_only = "None"
                      => \E r \in last'.result :
                            /\ r.s3_key = TrainingFileKey(last'.user, last'.avatar, f)
                            /\ ~r.use_for_training
      ]_vars

(***************************************************************************)
(* Claims about update_training_flag (SpecData).                           *)
(***************************************************************************)
\* C13: for a stored file f, when update_training_flag(f, false) directly
\* follows a successful update_training_flag(f, true), both reading the
\* ledger without failure, the second call returns old_value = true and
\* new_value = false, the ledger then holds f -> false, and every other
\* ledger entry is the entry the ledger had before the two calls.
C13_FlagRoundTrip ==
    [][ (/\ last.op = "update_training_flag"
         /\ last.status = "success"
         /\ last.new_value
         /\ ~last.fault
         /\ last'.op = "update_training_flag"
         /\ last'.filename = last.filename
         /\ last'.user = last.user
         /\ last'.avatar = last.avatar
         /\ ~last'.fault
         /\ ~last'.use_for_training)
        => LET f == last.filename
               before == last.metadata
               after == StoredLedger(store', last'.user, last'.avatar)
           IN  /\ last'.status = "success"
               /\ last'.old_value
               /\ ~last'.new_value
               /\ f \in DOMAIN after
               /\ ~after[f]
               /\ DOMAIN after \ {f} = DOMAIN before \ {f}
               /\ \A g \in DOMAIN before \ {f} : after[g] = before[g]
      ]_vars

\* C13 witness: the second call of the round trip has returned for a.txt,
\* and the ledger holds another entry, with the value true.
C13_Witness ==
    /\ last.op = "update_training_flag"
    /\ last.status = "success"
    /\ ~last.fault
    /\ last.filename = <<"a.txt">>
    /\ last.old_value
    /\ ~last.new_value
    /\ last.metadata = (<<"a.txt">> :> TRUE) @@ (<<"b.md">> :> TRUE)
    /\ StoredLedger(store, last.user, last.avatar)
          = (<<"a.txt">> :> FALSE) @@ (<<"b.md">> :> TRUE)

\* C14 as stated: update_training_flag called for a file name with no blob
\* under the training-data prefix succeeds, returns old_value (false when
\* the ledger had no entry) and new_value, and writes the entry into the
\* ledger.
C14_UpdateWithoutExistenceCheck ==
    [][ (/\ last'.op = "update_training_flag"
         /\ ~last'.fault
         /\ store[TrainingFileKey(last'.user, last'.avatar, last'.filename)] = NoObject)
        => /\ last'.status = "success"
           /\ last'.old_value
                 = Get(StoredLedger(store, last'.user, last'.avatar), last'.filename, FALSE)
           /\ last'.new_value = last'.use_for_training
           /\ Get(StoredLedger(store', last'.user, last'.avatar), last'.filename,
                  ~last'.use_for_training) = last'.use_for_training
      ]_vars

\* C14 amended: update_training_flag checks that the blob exists.  Called
\* for a file name with no blob under the training-data prefix it fails
\* with the 500 outcome and leaves the store, the ledger included,
\* unchanged; called for a stored blob it succeeds, returns old_value (false
\* when the ledger as read had no entry) and new_value, and writes the
\* entry into the ledger.
C14_UpdateChecksExistence ==
    [][ (last'.op = "update_training_flag")
        => LET u == last'.user
               a == last'.avatar
               f == last'.filename
           IN  IF store[TrainingFileKey(u, a, f)] = NoObject
               THEN last'.status = "500" /\ store' = store
               ELSE /\ last'.status = "success"
                    /\ last'.old_value
                          = (~last'.fault /\ Get(StoredLedger(store, u, a), f, FALSE))
                    /\ last'.new_value = last'.use_for_training
                    /\ f \in DOMAIN StoredLedger(store', u, a)
                    /\ StoredLedger(store', u, a)[f] = last'.use_for_training
      ]_vars

\* C14 witness: the call has failed for a file name whose blob is gone while
\* the ledger still holds an entry for it: the entry is as it was.
C14_Witness ==
    /\ last.op = "update_training_flag"
    /\ last.status = "500"
    /\ store[TrainingFileKey(last.user, last.avatar, last.filename)] = NoObject
    /\ last.filename \in DOMAIN StoredLedger(store, last.user, last.avatar)
    /\ StoredLedger(store, last.user, last.avatar)[last.filename] # last.use_for_training

(***************************************************************************)
(* Claims about adapter_exists and the fresh bundle.                       *)
(***************************************************************************)
\* C15: adapter_exists returns a boolean on every call, true exactly when
\* the probe of the archive key succeeds (the probe returns and the archive
\* is stored), false on every failure of the probe, and it changes nothing.
C15_AdapterExistsIsTotalAndPure ==
    [][ (last'.op = "adapter_exists")
        => /\ last'.result \in BOOLEAN
           /\ last'.result
                 = (/\ ~last'.fault
                    /\ store[AdapterBackupKey(last'.user, last'.avatar)] # NoObject)
           /\ <<store, clock, local>>' = <<store, clock, local>>
      ]_vars

\* C15 witness: the probe has failed while the archive is stored, and the
\* answer was False.
C15_Witness ==
    /\ last.op = "adapter_exists"
    /\ last.fault
    /\ store[AdapterBackupKey(last.user, last.avatar)] # NoObject
    /\ ~last.result

\* The adapter_config.json a restore of the stored archive into a fresh
\* directory yields.
RestoredConfig(s, u, a) ==
    restore_adapters_from_s3(s, u, a, NoDir, 0).files[<<"adapter_config.json">>]

\* C16: after create_adapter has created the bundle of an avatar that had no
\* adapter, adapter_exists() is true and the configuration restored from the
\* store carries status "untrained", an empty training_history, the
\* identity fields adapter_name, user_id, avatar_id, created_at and version,
\* and the default hyperparameters r=16, lora_alpha=32, lora_dropout=0.1,
\* target_modules=[q_proj, v_proj], next to an empty weights placeholder.
C16_FreshBundleContent ==
    [][ (/\ last'.op = "create_adapter"
         /\ last'.status = "created"
         /\ store[AdapterBackupKey(ManagerUser(last'.user), last'.avatar)] = NoObject)
        => LET u == ManagerUser(last'.user)
               a == last'.avatar
               restored == restore_adapters_from_s3(store', u, a, NoDir, 0)
               config == RestoredConfig(store', u, a)
           IN  /\ adapter_exists(store', u, a, FALSE)
               /\ <<"adapter_model.bin">> \in DOMAIN restored.files
               /\ restored.files[<<"adapter_model.bin">>] = [raw |-> ""]
               /\ {"status", "training_history", "adapter_name", "user_id",
                   "avatar_id", "created_at", "version", "r", "lora_alpha",
                   "lora_dropout", "target_modules"} \subseteq DOMAIN config
               /\ config.status = "untrained"
               /\ config.training_history = <<>>
               /\ config.r = 16
               /\ config.lora_alpha = 32
               /\ config.lora_dropout = "0.1"
               /\ config.target_modules = <<"q_proj", "v_proj">>
      ]_vars

(***************************************************************************)
(* Claims about delete_training_file.                                      *)
(***************************************************************************)
\* C17: delete_training_file for a file name with no blob under the
\* training-data prefix fails with the NotFound (404) outcome and leaves the
\* store as it was: a stale ledger entry for that name stays.
C17_DeleteMissingFileIsNotFound ==
    [][ (/\ last'.op = "delete_training_file"
         /\ store[TrainingFileKey(last'.user, last'.avatar, last'.filename)] = NoObject)
        => (last'.status = "404" /\ store' = store) ]_vars

(***************************************************************************)
(* Claims about the ledger projection and the listing filter.              *)
(***************************************************************************)
\* C18: get_training_files_for_training returns exactly the file names the
\* ledger flags true, whether or not a blob is stored under the name, it
\* returns the empty list when the ledger is missing or cannot be read, and
\* it changes nothing.
C18_LedgerProjection ==
    [][ (last'.op = "get_training_files_for_training")
        => LET ledger == StoredLedger(store, last'.user, last'.avatar)
           IN  /\ last'.result
                     = IF last'.fault THEN {} ELSE {f \in DOMAIN ledger : ledger[f]}
               /\ <<store, clock, local>>' = <<store, clock, local>>
      ]_vars

\* C18 witness: the call has returned a file name the ledger flags true and
\* no blob is stored under.
C18_Witness ==
    /\ last.op = "get_training_files_for_training"
    /\ ~last.fault
    /\ \E f \in last.result :
          /\ store[TrainingFileKey(last.user, last.avatar, f)] = NoObject
          /\ StoredLedger(store, last.user, last.avatar)[f]

\* The keys of the records a listing returned.
ListedKeys(result) == {r.s3_key : r \in result}

\* The three results of list_training_files on one store partition: the
\* true-result and the false-result are disjoint and together make the
\* None-result.
ListingPartitions(s, u, a, fault) ==
    LET t == ListedKeys(list_training_files(s, u, a, "True", fault))
        f == ListedKeys(list_training_files(s, u, a, "False", fault))
        n == ListedKeys(list_training_files(s, u, a, "None", fault))
    IN  t \cap f = {} /\ t \cup f = n

\* C19: list_training_files with training_only=true returns exactly the
\* stored files whose ledger flag is true, with training_only=false exactly
\* the stored files whose flag is false or absent, with training_only=None
\* every stored file; the true-result and the false-result partition the
\* None-result.
C19_ListingFilter ==
    [][ (last'.op = "list_training_files")
        => LET u == last'.user
               a == last'.avatar
               ledger == get_training_metadata(store, u, a, last'.fault)
               flagged == {f \in StoredFiles(store, u, a) : Get(ledger, f, FALSE)}
               expected == CASE last'.training_only = "True" -> flagged
                             [] last'.training_only = "False" ->
                                   StoredFiles(store, u, a) \ flagged
                             [] OTHER -> StoredFiles(store, u, a)
           IN  /\ ListedKeys(last'.result) = {TrainingFileKey(u, a, f) : f \in expected}
               /\ ListingPartitions(store, u, a, last'.fault)
      ]_vars

(***************************************************************************)
(* SpecRace: two requests against the ledger of one avatar, each running   *)
(* its handler one store call at a time.  Nothing in the handlers orders   *)
(* the calls of one request against those of another: no lock is taken and *)
(* put_object is unconditional.  local holds the locals of each request.   *)
(***************************************************************************)
Requests == {"r1", "r2"}

Idle ==
    [pc |-> "idle", op |-> "none", filename |-> <<>>, use_for_training |-> FALSE,
     metadata |-> EmptyDict, fault |-> FALSE, status |-> "none"]

\* A store after two uploads with use_for_training=false.
TwoFilesStored ==
    upload_training_file(
        upload_training_file(EmptyStore, USER_ID, "a1", <<"a.txt">>, "data",
                             "text/plain", FALSE, FALSE),
        USER_ID, "a1", <<"b.md">>, "data", "text/plain", FALSE, FALSE)

\* update_training_flag up to its existence check: head_object of the blob;
\* a failure ends the request with the 500 outcome.
RaceUpdateProbe(r, a, f, flag) ==
    /\ local[r].pc = "idle"
    /\ IF head_object(store, TrainingFileKey(USER_ID, a, f), FALSE) = "200"
       THEN /\ local' = [local EXCEPT ![r] =
                           [Idle EXCEPT !.pc = "read", !.op = "update_training_flag",
                                        !.filename = f, !.use_for_training = flag,
                                        !.status = "running"]]
            /\ UNCHANGED last
       ELSE /\ local' = [local EXCEPT ![r] =
                           [Idle EXCEPT !.pc = "done", !.op = "update_training_flag",
                                        !.filename = f, !.use_for_training = flag,
                                        !.status = "500"]]
            /\ last' = [op |-> "update_training_flag", request |-> r, status |-> "500"]
    /\ UNCHANGED <<store, clock>>

\* upload up to the put_object of the blob.
RaceUploadPut(r, a, f, body, ctype, flag) ==
    /\ local[r].pc = "idle"
    /\ store' = put_object(store, TrainingFileKey(USER_ID, a, f),
                           Blob(USER_ID, a, f, body, ctype, flag))
    /\ local' = [local EXCEPT ![r] =
                    [Idle EXCEPT !.pc = "read", !.op = "upload_training_data",
                                 !.filename = f, !.use_for_training = flag,
                                 !.status = "running"]]
    /\ UNCHANGED <<clock, last>>

\* The get_object of the whole ledger into the request's metadata dict.
RaceReadLedger(r, a, fault) ==
    /\ local[r].pc = "read"
    /\ local' = [local EXCEPT ![r].pc = "write",
                              ![r].fault = fault,
                              ![r].metadata =
                                  get_training_metadata(store, USER_ID, a, fault)]
    /\ UNCHANGED <<store, clock, last>>

\* A ledger write that sets the entry in the ledger as stored at the time
\* of the write instead of the dict the request read.
RaceWriteLedgerMerging(r, a) ==
    /\ local[r].pc = "write"
    /\ store' = put_object(store, LedgerKey(USER_ID, a),
                           Ledger(Set(StoredLedger(store, USER_ID, a),
                                      local[r].filename, local[r].use_for_training)))
    /\ local' = [local EXCEPT ![r].pc = "done", ![r].status = "success"]
    /\ last' = [op |-> local[r].op, request |-> r, status |-> "success"]
    /\ UNCHANGED clock

\* metadata[file_name] = use_for_training, then the put_object of the whole
\* dict, and the success response.
RaceWriteLedger(r, a) ==
    /\ local[r].pc = "write"
    /\ store' = put_object(store, LedgerKey(USER_ID, a),
                           Ledger(Set(local[r].metadata,
                                      local[r].filename, local[r].use_for_training)))
    /\ local' = [local EXCEPT ![r].pc = "done", ![r].status = "success"]
    /\ last' = [op |-> local[r].op, request |-> r, status |-> "success"]
    /\ UNCHANGED clock

InitRace ==
    /\ store \in {EmptyStore, TwoFilesStored}
    /\ clock = 1
    /\ local = [r \in Requests |-> Idle]
    /\ last = [op |-> "none"]

NextRace ==
    \E r \in Requests, a \in Avatars :
        \/ \E f \in Filenames, flag \in BOOLEAN : RaceUpdateProbe(r, a, f, flag)
        \/ \E f \in Filenames, flag \in BOOLEAN, body \in Bodies, ctype \in ContentTypes :
              RaceUploadPut(r, a, f, body, ctype, flag)
        \/ \E fault \in BOOLEAN : RaceReadLedger(r, a, fault)
        \/ RaceWriteLedger(r, a)

SpecRace == InitRace /\ [][NextRace]_vars

(***************************************************************************)
(* Claims about concurrent ledger updates.                                 *)
(***************************************************************************)
\* C20: the ledger write of a request stores the dict the request read with
\* its own entry set, whatever was written to the ledger since the read, and
\* the request answers success: no step detects or reports a write of
\* another request in between.  (The witness is the lost update.)
C20_LastWriteWinsUndetected ==
    [][ \A r \in Requests :
          (local[r].pc = "write" /\ local'[r].pc = "done")
          => /\ StoredLedger(store', USER_ID, "a1")
                   = Set(local[r].metadata, local[r].filename, local[r].use_for_training)
             /\ local'[r].status = "success"
             /\ last'.status = "success"
      ]_vars

\* C20 witness: two update_training_flag requests on different file names,
\* both with a ledger read that succeeded, have both answered success, and
\* the ledger holds the update of one and not the update of the other.
C20_Witness ==
    \E r1, r2 \in Requests :
        /\ r1 # r2
        /\ local[r1].op = "update_training_flag"
        /\ local[r2].op = "update_training_flag"
        /\ local[r1].status = "success" /\ local[r2].status = "success"
        /\ ~local[r1].fault /\ ~local[r2].fault
        /\ local[r1].filename # local[r2].filename
        /\ LET ledger == StoredLedger(store, USER_ID, "a1")
           IN  /\ Get(ledger, local[r2].filename, ~local[r2].use_for_training)
                     = local[r2].use_for_training
               /\ Get(ledger, local[r1].filename, local[r1].use_for_training)
                     # local[r1].use_for_training

(***************************************************************************)
(* Claims about an upload that stops between its two writes.               *)
(***************************************************************************)
\* C21 as stated: after an upload that stopped after the blob write and
\* before the ledger write, get_training_files_for_training does not return
\* the file name and list_training_files reports use_for_training=false for
\* the blob, whatever flag was requested and whatever was stored before.
C21_StoppedUploadIsExcluded ==
    [][ (last'.op = "upload_stopped")
        => LET u == last'.user
               a == last'.avatar
               f == last'.filename
           IN  /\ f \notin get_training_files_for_training(store', u, a, FALSE)
               /\ \A r \in list_training_files(store', u, a, "None", FALSE) :
                     r.s3_key = TrainingFileKey(u, a, f) => ~r.use_for_training
      ]_vars

\* C21 amended: an upload that stops after the blob write and before the
\* ledger write leaves the ledger exactly as it was, whatever flag it
\* requested: get_training_files_for_training returns the file name exactly
\* when the ledger flagged it true before the upload, so a file with no
\* entry before (a first upload) is excluded from training and a file whose
\* entry was true stays included.
C21_StoppedUploadKeepsLedger ==
    [][ (last'.op = "upload_stopped")
        => LET u == last'.user
               a == last'.avatar
               f == last'.filename
           IN  /\ store'[LedgerKey(u, a)] = store[LedgerKey(u, a)]
               /\ store'[TrainingFileKey(u, a, f)] # NoObject
               /\ (f \in get_training_files_for_training(store', u, a, FALSE))
                     = Get(StoredLedger(store, u, a), f, FALSE)
      ]_vars

\* C21 witness: an upload that requested use_for_training=false has stopped
\* between its writes and the file name is still returned for training.
C21_Witness ==
    /\ last.op = "upload_stopped"
    /\ ~last.use_for_training
    /\ store[TrainingFileKey(last.user, last.avatar, last.filename)] # NoObject
    /\ last.filename \in get_training_files_for_training(store, last.user, last.avatar, FALSE)

(***************************************************************************)
(* Claims about the restore step of a training run.                        *)
(***************************************************************************)
\* Whether the run ended in failure: the 500 of the handler, or the
\* success=false record of the service.
RunFailed(l) == IF l.entry = "api" THEN l.status = "500" ELSE ~l.success

\* C22: in a training run whose restore fails with NotFound, create_adapter
\* is called and the restore retried once, so that the run ends with the
\* adapter archive in the store or ends in failure; in a run whose restore
\* fails for any other reason, create_adapter is not called, nothing is
\* backed up (the store is as it was) and the run ends in failure.
C22_LazyCreationOnNotFoundOnly ==
    [][ (last'.op = "train")
        => LET u == ManagerUser(last'.user)
               a == last'.avatar
           IN  /\ last'.restore_status = "NotFound404"
                  => /\ last'.create_called
                     /\ \/ store'[AdapterBackupKey(u, a)] # NoObject
                        \/ RunFailed(last')
               /\ last'.restore_status = "ClientError"
                  => /\ ~last'.create_called
                     /\ ~last'.backed_up
                     /\ store' = store
                     /\ RunFailed(last')
      ]_vars

(***************************************************************************)
(* Claims about the download step of a training run.                       *)
(***************************************************************************)
\* C23: in a training run that restored the bundle and has flagged files, a
\* file that cannot be fetched is skipped and the procedure is invoked with
\* the files that were fetched; when no flagged file could be fetched the
\* run ends in failure, the procedure is not invoked and the adapter
\* archive that was stored before the run is not rewritten.
C23_DownloadStep ==
    [][ (/\ last'.op = "train"
         /\ last'.restored
         /\ last'.training_files # {})
        => LET key == AdapterBackupKey(ManagerUser(last'.user), last'.avatar)
           IN  IF last'.downloaded = {}
               THEN /\ RunFailed(last')
                    /\ ~last'.invoked
                    /\ store[key] # NoObject => store'[key] = store[key]
               ELSE last'.invoked
      ]_vars

(***************************************************************************)
(* SpecProcedure: train_lora_adapter called directly, on any adapter       *)
(* directory, any training directory and any parameters.                   *)
(***************************************************************************)
\* A training directory: whether it exists and the names of its files.
NoTrainingDir == [exists |-> FALSE, files |-> {}]

TrainingDirs ==
    {NoTrainingDir}
    \cup {[exists |-> TRUE, files |-> fs] : fs \in SUBSET {f \in Filenames : Len(f) = 1}}

AdapterDirs ==
    {NoDir, EmptyDir, FreshBundle("default", USER_ID, "a1", 1)}

ProcedureParams ==
    {NoneParams,
     DictParams(EmptyDict),
     DictParams([num_epochs |-> 0]),
     DictParams([num_epochs |-> 1]),
     DictParams([num_epochs |-> -1]),
     DictParams([batch_size |-> 0]),
     DictParams([batch_size |-> 2]),
     DictParams([learning_rate |-> "1e-3"])}

\* train_lora_adapter whose two path checks raise past the procedure
\* instead of ending in the failure record.
train_lora_adapter_unguarded(adapter, training, training_params, now) ==
    IF ~adapter.exists \/ ~training.exists
    THEN [result |-> [raised |-> "ValueError"], files |-> adapter.files]
    ELSE train_lora_adapter(adapter.files, training.files, training_params, now)

\* train_lora_adapter from its first line: the two os.path.exists checks
\* raise ValueError inside the try block, and the except clause turns it
\* into the failure record like every other exception.
train_lora_adapter_at(adapter, training, training_params, now) ==
    IF ~adapter.exists
    THEN [result |-> [success |-> FALSE, error |-> "Adapter path does not exist"],
          files |-> adapter.files]
    ELSE IF ~training.exists
    THEN [result |-> [success |-> FALSE, error |-> "Training data path does not exist"],
          files |-> adapter.files]
    ELSE train_lora_adapter(adapter.files, training.files, training_params, now)

TrainLoraAdapter(adapter, training, training_params) ==
    LET run == train_lora_adapter_at(adapter, training, training_params, clock)
    IN  /\ last' = [op |-> "train_lora_adapter", adapter |-> adapter,
                    training |-> training, training_params |-> training_params,
                    result |-> run.result, files |-> run.files]
        /\ UNCHANGED <<store, clock, local>>

InitProcedure ==
    /\ store = EmptyStore
    /\ clock = 1
    /\ local = Unused
    /\ last = [op |-> "none"]

NextProcedure ==
    \E adapter \in AdapterDirs, training \in TrainingDirs,
       training_params \in ProcedureParams :
        TrainLoraAdapter(adapter, training, training_params)

SpecProcedure == InitProcedure /\ [][NextProcedure]_vars

(***************************************************************************)
(* Claims about the training procedure.                                    *)
(***************************************************************************)
\* Whether anything fails inside the procedure on these inputs.
SomethingFails(adapter, training, training_params) ==
    \/ ~adapter.exists
    \/ ~training.exists
    \/ training_params.is_none
    \/ get_training_files(training.files) = {}
    \/ LET params == Upd(default_training_params, training_params.dict)
       IN  \/ params.batch_size = 0
           \/ params.num_epochs <= 0

\* C24: train_lora_adapter returns a record on every input and raises
\* nothing: the record has success=false and an error message exactly when
\* something failed (a missing adapter directory, a missing or empty
\* training directory, no file with a supported extension, parameters that
\* make a step fail such as num_epochs 0).
C24_ProcedureNeverRaises ==
    (last.op = "train_lora_adapter")
    => /\ "success" \in DOMAIN last.result
       /\ last.result.success \in BOOLEAN
       /\ last.result.success
             = ~SomethingFails(last.adapter, last.training, last.training_params)
       /\ ~last.result.success => "error" \in DOMAIN last.result

\* C24 witness: the procedure was called with num_epochs 0 on an existing
\* bundle and a training file, and returned the failure record.
C24_Witness ==
    /\ last.op = "train_lora_adapter"
    /\ last.adapter.exists
    /\ last.training.files # {}
    /\ last.training_params = DictParams([num_epochs |-> 0])
    /\ ~last.result.success
    /\ last.result.error = "IndexError"

(***************************************************************************)
(* Claims about the ledger cleanup of delete_training_file.                *)
(***************************************************************************)
\* C25: delete_training_file on a stored blob deletes the blob and reports
\* success whether or not the ledger could be updated afterwards.  When the
\* ledger read or write fails, the ledger is left as it was: an entry of the
\* deleted file stays and, if its flag is true,
\* get_training_files_for_training goes on returning the file name.  When
\* the ledger is updated, the entry of the file is removed and the other
\* entries are kept.
C25_BestEffortLedgerCleanup ==
    [][ (/\ last'.op = "delete_training_file"
         /\ store[TrainingFileKey(last'.user, last'.avatar, last'.filename)] # NoObject)
        => LET u == last'.user
               a == last'.avatar
               f == last'.filename
               before == StoredLedger(store, u, a)
               after == StoredLedger(store', u, a)
           IN  /\ last'.status = "success"
               /\ store'[TrainingFileKey(u, a, f)] = NoObject
               /\ IF last'.fault
                  THEN /\ store'[LedgerKey(u, a)] = store[LedgerKey(u, a)]
                       /\ Get(before, f, FALSE)
                             => f \in get_training_files_for_training(store', u, a, FALSE)
                  ELSE after = Without(before, {f})
      ]_vars

\* C25 witness: the blob has been deleted with success, the ledger update
\* failed, and the file name is still returned for training.
C25_Witness ==
    /\ last.op = "delete_training_file"
    /\ last.status = "success"
    /\ last.fault
    /\ store[TrainingFileKey(last.user, last.avatar, last.filename)] = NoObject
    /\ last.filename \in get_training_files_for_training(store, last.user, last.avatar, FALSE)

(***************************************************************************)
(* SpecScratch: the temporary files and directories of the operations that *)
(* build, download or extract an archive.  Here local is the set of        *)
(* scratch paths that exist on disk; a scratch path is named by the clock  *)
(* value of the operation that made it.                                    *)
(***************************************************************************)
\* tempfile.NamedTemporaryFile(suffix='.zip', delete=False): the file stays
\* until os.unlink is reached.
TempFile(now) == <<"tmp", "zip", now>>

\* tempfile.TemporaryDirectory() as a context manager: removed when the
\* with block is left, by return or by exception.
TempDirLeft == {}

\* The temporary file backup_adapters_to_s3 leaves: none when the directory
\* is missing (raised before the file is made) and none when os.unlink is
\* reached; the file stays when upload_file or put_object raises.
BackupTempLeft(dir, upload_fault, put_fault, now) ==
    IF dir.exists /\ (upload_fault \/ put_fault) THEN {TempFile(now)} ELSE {}

\* The store after backup_adapters_to_s3 with store calls that may fail.
BackupStore(s, u, a, dir, upload_fault, put_fault, now) ==
    IF ~dir.exists \/ upload_fault THEN s
    ELSE IF put_fault THEN put_object(s, AdapterBackupKey(u, a), ZipDirectory(dir))
    ELSE backup_adapters_to_s3(s, u, a, dir, now)

\* backup_adapters_to_s3 of a caller's directory.
ScratchBackup(u, a, dir, upload_fault, put_fault) ==
    /\ clock < MaxClock
    /\ clock' = clock + 1
    /\ store' = BackupStore(store, u, a, dir, upload_fault, put_fault, clock)
    /\ local' = local \cup BackupTempLeft(dir, upload_fault, put_fault, clock)
    /\ last' = [op |-> "backup_adapters_to_s3", user |-> u, avatar |-> a,
                status |-> IF ~dir.exists THEN "NotFound404"
                           ELSE IF upload_fault \/ put_fault THEN "ClientError"
                           ELSE "ok",
                store_call_failed |-> dir.exists /\ (upload_fault \/ put_fault)]

\* restore_adapters_from_s3: the temporary file is made after the probe and
\* unlinked after extractall; it stays when download_file raises.
ScratchRestore(u, a, fault, download_fault) ==
    LET status == RestoreStatus(store, u, a, fault)
        failed == status = "ok" /\ download_fault
    IN  /\ clock < MaxClock
        /\ clock' = clock + 1
        /\ local' = local \cup TempDirLeft
                          \cup (IF failed THEN {TempFile(clock)} ELSE {})
        /\ last' = [op |-> "restore_adapters_from_s3", user |-> u, avatar |-> a,
                    status |-> IF failed THEN "ClientError" ELSE status,
                    store_call_failed |-> fault \/ failed]
        /\ UNCHANGED store

\* create_adapter of the manager: the bundle is built in a
\* TemporaryDirectory and backed up from there.
ScratchCreate(u, a, name, upload_fault, put_fault) ==
    IF adapter_exists(store, u, a, FALSE)
    THEN /\ last' = [op |-> "create_adapter", user |-> u, avatar |-> a,
                     status |-> "existing", store_call_failed |-> FALSE]
         /\ UNCHANGED <<store, clock, local>>
    ELSE LET dir == FreshBundle(name, u, a, clock)
         IN  /\ clock < MaxClock
             /\ clock' = clock + 1
             /\ store' = BackupStore(store, u, a, dir, upload_fault, put_fault, clock)
             /\ local' = local \cup TempDirLeft
                               \cup BackupTempLeft(dir, upload_fault, put_fault, clock)
             /\ last' = [op |-> "create_adapter", user |-> u, avatar |-> a,
                         status |-> IF upload_fault \/ put_fault
                                    THEN "500" ELSE "created",
                         store_call_failed |-> upload_fault \/ put_fault]

\* GET /adapters/{user_id}/{avatar_id} for a stored adapter: the archive is
\* downloaded into a temporary file made with delete=False and the handler
\* returns a FileResponse on its path; nothing unlinks it.
ScratchGetAdapter(u, a, download_fault) ==
    /\ head_object(store, AdapterBackupKey(u, a), FALSE) = "200"
    /\ clock < MaxClock
    /\ clock' = clock + 1
    /\ local' = local \cup {TempFile(clock)}
    /\ last' = [op |-> "get_adapter", user |-> u, avatar |-> a,
                status |-> IF download_fault THEN "500" ELSE "ok",
                store_call_failed |-> download_fault]
    /\ UNCHANGED store

InitScratch ==
    /\ store = EmptyStore
    /\ clock = 1
    /\ local = {}
    /\ last = [op |-> "none"]

NextScratch ==
    \E a \in Avatars :
        \/ \E dir \in SourceDirs, upload_fault \in BOOLEAN, put_fault \in BOOLEAN :
              ScratchBackup(USER_ID, a, dir, upload_fault, put_fault)
        \/ \E fault \in BOOLEAN, download_fault \in BOOLEAN :
              ScratchRestore(USER_ID, a, fault, download_fault)
        \/ \E upload_fault \in BOOLEAN, put_fault \in BOOLEAN :
              ScratchCreate(USER_ID, a, "default", upload_fault, put_fault)
        \/ \E download_fault \in BOOLEAN : ScratchGetAdapter(USER_ID, a, download_fault)

SpecScratch == InitScratch /\ [][NextScratch]_vars

(***************************************************************************)
(* Claims about scratch resources.                                         *)
(***************************************************************************)
\* C26: whenever an operation has returned, by success or after a failed
\* store call, no temporary file or directory it made exists any more.
C26_ScratchReleased == local = {}

(***************************************************************************)
(* Claims about the content of a restored directory.                       *)
(***************************************************************************)
\* C27: after restore_adapters_from_s3 into a target directory, the
\* directory holds exactly the relative paths of the archive with the bytes
\* of the archive: a file the target held before and the archive does not
\* hold is gone.
C27_RestoreIsFullOverwrite ==
    [][ (last'.op = "restore_adapters_from_s3" /\ last'.status = "ok")
        => LET archive == store[AdapterBackupKey(last'.user, last'.avatar)]
               target == local'[last'.dir]
           IN  /\ target.exists
               /\ DOMAIN target.files = DOMAIN archive.entries
               /\ \A p \in DOMAIN archive.entries : target.files[p] = archive.entries[p]
      ]_vars

(***************************************************************************)
(* SpecValidate: uploads of bodies of several sizes and content types, and *)
(* validate_training_data_with_persistence on the result.                  *)
(***************************************************************************)
DeclaredContentTypes == {"text/plain", "application/pdf"}

\* "text" in content_type.lower()
HasTextMarker(content_type) == content_type \in {"text/plain"}

\* 100 * 1024 * 1024, the large-file limit of the size check.
LargeFileLimit == 100 * 1024 * 1024

\* 1024, the least total size for a recommendation.
MinTotalSize == 1024

RECURSIVE SumSizes(_)
\* total_size: the sum of file_info["file_size"] over the listing.
SumSizes(file_list) ==
    IF file_list = {} THEN 0
    ELSE LET r == CHOOSE x \in file_list : TRUE
         IN  r.file_size + SumSizes(file_list \ {r})

\* The per-file check with the large-file test made a hard condition.
FileResultLargeInvalid(file_info) ==
    [filename |-> file_info.filename,
     s3_key |-> file_info.s3_key,
     size |-> file_info.file_size,
     valid |-> file_info.file_size # 0 /\ file_info.file_size <= LargeFileLimit,
     issues |-> (IF file_info.file_size = 0 THEN {"File is empty"} ELSE {})
                \cup (IF file_info.file_size > LargeFileLimit
                      THEN {"File is very large (>100MB)"} ELSE {})
                \cup (IF file_info.content_type # ""
                         /\ ~HasTextMarker(file_info.content_type)
                      THEN {"File may not be text-based"} ELSE {})]

\* file_result of one entry of the listing.  s3_key stands for the position
\* of the entry in the list: two entries can share filename and size.
FileResult(file_info) ==
    [filename |-> file_info.filename,
     s3_key |-> file_info.s3_key,
     size |-> file_info.file_size,
     valid |-> file_info.file_size # 0,
     issues |-> (IF file_info.file_size = 0 THEN {"File is empty"} ELSE {})
                \cup (IF file_info.file_size > LargeFileLimit
                      THEN {"File is very large (>100MB)"} ELSE {})
                \cup (IF file_info.content_type # ""
                         /\ ~HasTextMarker(file_info.content_type)
                      THEN {"File may not be text-based"} ELSE {})]

\* TrainingService.validate_training_data_with_persistence
validate_training_data_with_persistence(s, u, a, fault) ==
    LET training_files == get_training_files_for_training(s, u, a, fault)
        file_list == list_training_files(s, u, a, "True", FALSE)
        validation_results == {FileResult(file_info) : file_info \in file_list}
        valid_files == {r \in validation_results : r.valid}
        total_size == SumSizes(file_list)
    IN  IF training_files = {}
        THEN [valid |-> FALSE, error |-> "No files marked for training",
              training_files |-> {}]
        ELSE [valid |-> valid_files # {},
              total_files |-> Cardinality(training_files),
              valid_files |-> Cardinality(valid_files),
              total_size |-> total_size,
              files |-> validation_results,
              summary |-> [has_valid_files |-> valid_files # {},
                           recommended_training |->
                               valid_files # {} /\ total_size > MinTotalSize]]

ValidateTrainingData(u, a, fault) ==
    /\ last' = [op |-> "validate_training_data", user |-> u, avatar |-> a,
                fault |-> fault,
                result |-> validate_training_data_with_persistence(store, u, a, fault)]
    /\ UNCHANGED <<store, clock, local>>

NextValidate ==
    \E a \in Avatars :
        \/ \E f \in Filenames, flag \in BOOLEAN, body \in SizedBodies,
              ctype \in DeclaredContentTypes :
              ApiUploadTrainingData(USER_ID, a, f, body, ctype, flag, FALSE)
        \/ \E fault \in BOOLEAN : ValidateTrainingData(USER_ID, a, fault)
        \/ \E training_only \in TrainingOnly :
              ListTrainingFiles(USER_ID, a, training_only, FALSE)

SpecValidate == InitData /\ [][NextValidate]_vars

(***************************************************************************)
(* Claims about training-data validation.                                  *)
(***************************************************************************)
\* C28: in the report of validate_training_data_with_persistence, a file of
\* size 0 is invalid; a file of any other size is valid, with a warning when
\* it is larger than 100 MiB; a reported content type without a text marker
\* adds a warning and does not change validity; the aggregate is valid
\* exactly when at least one file is valid; training is recommended exactly
\* when at least one file is valid and the total size is above 1024 bytes.
C28_ValidationRules ==
    (last.op = "validate_training_data" /\ "files" \in DOMAIN last.result)
    => LET result == last.result
           listing == list_training_files(store, last.user, last.avatar, "True", FALSE)
           info(r) == CHOOSE i \in listing : i.s3_key = r.s3_key
       IN  /\ {r.s3_key : r \in result.files} = {i.s3_key : i \in listing}
           /\ \A r \in result.files :
                 /\ r.size = BodySize(store[r.s3_key].body)
                 /\ r.valid = (r.size # 0)
                 /\ ("File is empty" \in r.issues) = (r.size = 0)
                 /\ ("File is very large (>100MB)" \in r.issues) = (r.size > 104857600)
                 /\ ~HasTextMarker(info(r).content_type)
                       => "File may not be text-based" \in r.issues
           /\ result.valid = (\E r \in result.files : r.valid)
           /\ result.summary.recommended_training
                 = (/\ \E r \in result.files : r.valid
                    /\ SumSizes(listing) > 1024)

\* C28 witness: a report with an empty file, which is invalid, and a file
\* above 100 MiB, which is valid with the warning; training is recommended.
C28_Witness ==
    /\ last.op = "validate_training_data"
    /\ "files" \in DOMAIN last.result
    /\ \E r \in last.result.files : r.size = 0 /\ ~r.valid
    /\ \E r \in last.result.files :
          r.size > 104857600 /\ r.valid /\ "File is very large (>100MB)" \in r.issues
    /\ last.result.valid
    /\ last.result.summary.recommended_training

(***************************************************************************)
(* Claims about the content type a listing reports.                        *)
(***************************************************************************)
\* C29: list_training_files reports for every file the content type it was
\* uploaded with, and validation adds no 'may not be text-based' warning to
\* a file uploaded with a text content type.
C29_ListedContentType ==
    /\ (last.op = "list_training_files")
       => \A r \in last.result : r.content_type = store[r.s3_key].content_type
    /\ (last.op = "validate_training_data" /\ "files" \in DOMAIN last.result)
       => \A r \in last.result.files :
             HasTextMarker(store[r.s3_key].content_type)
             => "File may not be text-based" \notin r.issues

(***************************************************************************)
(* SpecFinalize: LoRAManager.finalize_training on an adapter directory.    *)
(* Here local is that directory.                                           *)
(***************************************************************************)
\* create_adapter_config: the document of a new adapter.
create_adapter_config(u, a, name, now) ==
    [adapter_name |-> name,
     user_id |-> u,
     avatar_id |-> a,
     created_at |-> now,
     version |-> "1.0.0",
     status |-> "untrained",
     training_history |-> <<>>]

\* load_adapter_config: the document of adapter_config.json, None when the
\* file is missing.  None and {} are both falsy; both are the empty dict
\* here.
load_adapter_config(dir) ==
    IF dir.exists /\ ConfigPath \in DOMAIN dir.files THEN dir.files[ConfigPath] ELSE EmptyDict

\* not config
Falsy(config) == DOMAIN config = {}

\* update_adapter_status: the directory after the call.  The document is
\* loaded from the file, changed and written back.
update_adapter_status(dir, status, additional_info, now) ==
    LET config == load_adapter_config(dir)
    IN  IF Falsy(config)
        THEN dir
        ELSE [dir EXCEPT !.files =
                 (ConfigPath :>
                     Upd(Upd(config, [status |-> status, last_updated |-> now]),
                         additional_info))
                 @@ dir.files]

\* training_entry of finalize_training.
training_entry(training_result, now) ==
    [timestamp |-> now,
     result |-> training_result,
     files_used |-> Get(training_result, "training_files", {}),
     training_params |-> Get(training_result, "training_params", EmptyDict)]

\* "trained" if training_result.get("success", False) else "training_failed"
final_status(training_result) ==
    IF Get(training_result, "success", FALSE) THEN "trained" ELSE "training_failed"

\* finalize_training: the directory after the call.  The entry is appended
\* to the history of the document finalize_training loaded; the document
\* that is written is the one update_adapter_status loads from the file.
finalize_training(dir, training_result, now) ==
    IF Falsy(load_adapter_config(dir))
    THEN dir
    ELSE update_adapter_status(dir, final_status(training_result),
                               [last_training |-> now,
                                training_result |-> training_result],
                               now)

FinalizeTraining(training_result) ==
    /\ clock < MaxClock
    /\ clock' = clock + 1
    /\ local' = finalize_training(local, training_result, clock)
    /\ last' = [op |-> "finalize_training",
                training_result |-> training_result,
                status |-> IF Falsy(load_adapter_config(local))
                           THEN "ValueError"
                           ELSE final_status(training_result),
                training_entry |-> training_entry(training_result, clock)]
    /\ UNCHANGED store

\* The records finalize_training is handed: with or without each of the
\* keys it reads.
OptionalKey(key, values) == {EmptyDict} \cup {key :> v : v \in values}

TrainingResults ==
    {s @@ f @@ p :
        s \in OptionalKey("success", BOOLEAN),
        f \in OptionalKey("training_files", {{<<"a.txt">>}, {<<"a.txt">>, <<"b.md">>}}),
        p \in OptionalKey("training_params", {EmptyDict, [num_epochs |-> 0]})}

\* A valid adapter directory with the given document.
AdapterDir(config) ==
    [exists |-> TRUE,
     files |-> (ConfigPath :> config) @@ (ModelPath :> [raw |-> ""]),
     emptydirs |-> {},
     mtime |-> 0]

InitFinalize ==
    /\ store = EmptyStore
    /\ clock = 1
    /\ local \in {AdapterDir(create_adapter_config(USER_ID, "a1", "default", 0)),
                  AdapterDir(LoraStructure[ConfigPath]),
                  EmptyDir}
    /\ last = [op |-> "none"]

NextFinalize == \E training_result \in TrainingResults : FinalizeTraining(training_result)

SpecFinalize == InitFinalize /\ [][NextFinalize]_vars

(***************************************************************************)
(* Claims about finalize_training.                                         *)
(***************************************************************************)
\* C30: after finalize_training on a directory with a configuration
\* document, the document on disk has a training_history exactly one entry
\* longer than before, the new entry being the one with the timestamp, the
\* files used, the parameters and the result of this call, and has status
\* "trained" when result.success is true and "training_failed" otherwise.
C30_FinalizeRecordsAttempt ==
    [][ (/\ last'.op = "finalize_training"
         /\ ~Falsy(load_adapter_config(local)))
        => LET before == load_adapter_config(local)
               after == load_adapter_config(local')
           IN  /\ HistoryOf(after) = Append(HistoryOf(before), last'.training_entry)
               /\ after.status
                     = IF Get(last'.training_result, "success", FALSE)
                       THEN "trained" ELSE "training_failed"
      ]_vars

(***************************************************************************)
(* Claims about create_adapter and a stored archive (SpecCreate).          *)
(***************************************************************************)
\* C31: a call of create_adapter, through the handler or the manager, leaves
\* every stored adapter_backup.zip of the avatar as it was, also when the
\* existence probe of the call failed for a reason other than absence.
C31_ExistingArchiveIsKept ==
    [][ (last'.op = "create_adapter")
        => \A u \in Users :
              (store[AdapterBackupKey(u, last'.avatar)] # NoObject)
              => store'[AdapterBackupKey(u, last'.avatar)]
                    = store[AdapterBackupKey(u, last'.avatar)]
      ]_vars

(***************************************************************************)
(* Claims about a train request for a trained adapter (SpecTrain).         *)
(***************************************************************************)
\* C32: when the stored adapter configuration has status "trained", a
\* train_adapter request that finds no file flagged for training, or can
\* download none of the flagged files, leaves the stored status "trained"
\* and the stored archive as it was.
C32_TrainNeverDowngrades ==
    [][ (/\ last'.op = "train"
         /\ last'.entry = "api"
         /\ ~last'.invoked
         /\ store[AdapterBackupKey(last'.user, last'.avatar)] # NoObject
         /\ StoredStatus(store, last'.user, last'.avatar) = "trained")
        => /\ StoredStatus(store', last'.user, last'.avatar) = "trained"
           /\ store'[AdapterBackupKey(last'.user, last'.avatar)]
                 = store[AdapterBackupKey(last'.user, last'.avatar)]
      ]_vars

(***************************************************************************)
(* Claims about the identity of a request (SpecCreate).                    *)
(***************************************************************************)
\* C33: every object an operation for the request identity (user_id,
\* avatar_id) writes or deletes has its key under
\* users/{user_id}/avatars/{avatar_id}/adapters/ of that same user_id, also
\* when user_id is not the configured USER_ID.
C33_IdentityIsolation ==
    [][ ("user" \in DOMAIN last')
        => \A k \in AllKeys :
              (store'[k] # store[k])
              => IsPrefix(get_s3_adapter_path(last'.user, last'.avatar), k)
      ]_vars

(***************************************************************************)
(* SpecLedger: the training-data handlers and the destructive delete of    *)
(* the API, one at a time, every store call succeeding.                    *)
(***************************************************************************)
NextLedger ==
    \E a \in Avatars :
        \/ \E f \in Filenames, flag \in BOOLEAN, body \in Bodies, ctype \in ContentTypes :
              ApiUploadTrainingData(USER_ID, a, f, body, ctype, flag, FALSE)
        \/ \E f \in Filenames, flag \in BOOLEAN :
              ApiUpdateTrainingFlag(USER_ID, a, f, flag, FALSE)
        \/ \E f \in Filenames : ApiDeleteTrainingFile(USER_ID, a, f, FALSE)
        \/ ApiDeleteNonTrainingFiles(USER_ID, a, FALSE)
        \/ ApiDeleteAdapter(USER_ID, a)

SpecLedger == InitData /\ [][NextLedger]_vars

\* C34: after any sequence of upload, update_training_flag,
\* delete_training_file, delete_non_training_files and delete_adapter
\* requests that run one at a time without a store failure, every file name
\* with a ledger entry has a blob under the training-data prefix.
C34_NoStaleLedgerEntries ==
    \A a \in Avatars :
        DOMAIN StoredLedger(store, USER_ID, a) \subseteq StoredFiles(store, USER_ID, a)

(***************************************************************************)
(* SpecTrainingBackup: uploads, the training-data backup of the manager,   *)
(* the listing and delete_non_training_files, every store call succeeding. *)
(***************************************************************************)
\* The local training-data directories handed to the backup.
TrainingDataDirs == {NoDir, EmptyDir, StaleDir}

\* AdapterPersistenceManager.backup_training_data_to_s3 on the caller's
\* directory.
BackupTrainingData(u, a, dir) ==
    IF ~dir.exists
    THEN /\ last' = [op |-> "backup_training_data_to_s3", user |-> u, avatar |-> a,
                     status |-> "NotFound404"]
         /\ UNCHANGED <<store, clock, local>>
    ELSE /\ clock < MaxClock
         /\ store' = backup_training_data_to_s3(store, u, a, dir, clock)
         /\ clock' = clock + 1
         /\ last' = [op |-> "backup_training_data_to_s3", user |-> u, avatar |-> a,
                     status |-> "ok"]
         /\ UNCHANGED local

NextTrainingBackup ==
    \E a \in Avatars :
        \/ \E f \in Filenames, flag \in BOOLEAN, body \in Bodies, ctype \in ContentTypes :
              ApiUploadTrainingData(USER_ID, a, f, body, ctype, flag, FALSE)
        \/ \E dir \in TrainingDataDirs : BackupTrainingData(USER_ID, a, dir)
        \/ \E training_only \in TrainingOnly :
              ListTrainingFiles(USER_ID, a, training_only, FALSE)
        \/ ApiDeleteNonTrainingFiles(USER_ID, a, FALSE)

SpecTrainingBackup == InitData /\ [][NextTrainingBackup]_vars

\* The keys of the two objects of a training-data backup.
TrainingBackupKeys(u, a) == {TrainingBackupKey(u, a), TrainingBackupMetadataKey(u, a)}

\* C35: list_training_files returns only blobs stored by an upload, never
\* training_data_backup.zip or its backup_metadata.json, and
\* delete_non_training_files leaves these two objects as they were.
C35_BackupObjectsAreNotTrainingFiles ==
    [][ /\ (last'.op = "list_training_files")
           => /\ ListedKeys(last'.result)
                    \subseteq {TrainingFileKey(last'.user, last'.avatar, f) :
                                  f \in Filenames}
              /\ ListedKeys(last'.result)
                    \cap TrainingBackupKeys(last'.user, last'.avatar) = {}
        /\ (last'.op = "delete_non_training_files")
           => \A k \in TrainingBackupKeys(last'.user, last'.avatar) :
                 store'[k] = store[k]
      ]_vars

(***************************************************************************)
(* Claims about the name a file is known by (SpecList).                    *)
(***************************************************************************)
\* C36: for every stored file, the flag list_training_files reports for its
\* blob is the flag the ledger holds under the name the file was uploaded
\* with, and delete_non_training_files keeps the blob of every file whose
\* ledger entry under that name is true.
C36_UploadedNameIsTheLedgerKey ==
    [][ LET u == last'.user
            a == last'.avatar
            ledger == get_training_metadata(store, u, a, last'.fault)
        IN  /\ (last'.op = "list_training_files")
               => \A r \in last'.result :
                     \A f \in Filenames :
                        (r.s3_key = TrainingFileKey(u, a, f))
                        => r.use_for_training = Get(ledger, f, FALSE)
            /\ (last'.op = "delete_non_training_files")
               => \A f \in StoredFiles(store, u, a) :
                     Get(ledger, f, FALSE)
                     => store'[TrainingFileKey(u, a, f)]
                           = store[TrainingFileKey(u, a, f)]
      ]_vars

(***************************************************************************)
(* SpecBackupRace: two backup_adapters_to_s3 operations for one avatar,    *)
(* each running one store call at a time in its own worker.  Nothing       *)
(* orders the calls of one operation against those of the other.  local    *)
(* holds, for each operation, its position and what it has written.        *)
(***************************************************************************)
BackupIdle == [pc |-> "idle", dir |-> NoDir, archive |-> NoObject, metadata |-> NoObject]

\* The directories handed to the two operations: every existing one.
BackupDirs == SourceDirs \ {NoDir}

\* Lines 46-56: the archive is built and upload_file stores it.
RaceBackupUpload(r, u, a, dir) ==
    /\ local[r].pc = "idle"
    /\ store' = put_object(store, AdapterBackupKey(u, a), ZipDirectory(dir))
    /\ local' = [local EXCEPT ![r] = [pc |-> "uploaded", dir |-> dir,
                                      archive |-> ZipDirectory(dir),
                                      metadata |-> NoObject]]
    /\ last' = [op |-> "backup_adapters_to_s3", step |-> "upload_file",
                request |-> r, user |-> u, avatar |-> a]
    /\ UNCHANGED clock

\* Lines 58-75: the side-car is built, with datetime.now(), and put_object
\* stores it; the operation returns.
RaceBackupPutMetadata(r, u, a) ==
    /\ local[r].pc = "uploaded"
    /\ clock < MaxClock
    /\ LET metadata == BackupMetadata(u, a, local[r].dir, clock)
       IN  /\ store' = put_object(store, BackupMetadataKey(u, a), metadata)
           /\ local' = [local EXCEPT ![r].pc = "done", ![r].metadata = metadata]
    /\ clock' = clock + 1
    /\ last' = [op |-> "backup_adapters_to_s3", step |-> "put_object",
                request |-> r, user |-> u, avatar |-> a]

InitBackupRace ==
    /\ store = EmptyStore
    /\ clock = 1
    /\ local = [r \in Requests |-> BackupIdle]
    /\ last = [op |-> "none"]

NextBackupRace ==
    \E r \in Requests, a \in Avatars :
        \/ \E dir \in BackupDirs : RaceBackupUpload(r, USER_ID, a, dir)
        \/ RaceBackupPutMetadata(r, USER_ID, a)

SpecBackupRace == InitBackupRace /\ [][NextBackupRace]_vars

\* C37: when two backup_adapters_to_s3 operations for the same avatar have
\* run concurrently and both have completed, the stored backup_metadata.json
\* and the stored adapter_backup.zip were written by the same operation, and
\* the file count of the side-car is the number of files in the archive.
C37_ArchiveAndSidecarStayPaired ==
    (\A r \in Requests : local[r].pc = "done")
    => \A a \in Avatars :
          /\ \E r \in Requests :
                /\ store[AdapterBackupKey(USER_ID, a)] = local[r].archive
                /\ store[BackupMetadataKey(USER_ID, a)] = local[r].metadata
          /\ store[BackupMetadataKey(USER_ID, a)].file_count
                = Cardinality(DOMAIN store[AdapterBackupKey(USER_ID, a)].entries)

(***************************************************************************)
(* Claims about the orchestrator's download step (SpecTrain).              *)
(***************************************************************************)
\* C38: when the ledger read succeeds, some flagged file has its blob
\* stored and the adapter has been restored, train_with_persistence_manager
\* with the persistence manager of the repository obtains at least one
\* training file, invokes the training procedure and returns its result,
\* not 'Failed to download any training files'.
C38_OrchestratorReachesTraining ==
    [][ (/\ last'.op = "train"
         /\ last'.entry = "service"
         /\ ~last'.fault
         /\ last'.restored
         /\ \E f \in last'.training_files :
               store[TrainingFileKey(last'.user, last'.avatar, f)] # NoObject)
        => /\ last'.downloaded # {}
           /\ last'.invoked
           /\ last'.error # "Failed to download any training files"
      ]_vars

(***************************************************************************)
(* SpecBackupDelete: DELETE /persistence/adapters/backup/{user_id}/        *)
(* {avatar_id} beside the operations that store the objects it names.      *)
(***************************************************************************)
\* Whether main.py defines get_settings, which
\* get_adapter_persistence_manager of api/persistence.py imports from it.
MainHasGetSettings == FALSE

BackupTypes == {"adapters", "training_data", "other"}

\* The two keys delete_adapter_backup deletes for a known backup_type.
BackupDeleteKeys(u, a, backup_type) ==
    IF backup_type = "adapters"
    THEN {AdapterBackupKey(u, a), BackupMetadataKey(u, a)}
    ELSE TrainingBackupKeys(u, a)

\* delete_adapter_backup: the whole body runs inside try / except Exception,
\* which answers 500 for the ImportError of the manager factory and for the
\* HTTPException(400) of an unknown backup_type alike.
ApiDeleteAdapterBackup(u, a, backup_type) ==
    LET raises == \/ ~MainHasGetSettings
                  \/ backup_type \notin {"adapters", "training_data"}
    IN  /\ store' = IF raises
                    THEN store
                    ELSE delete_objects(store, BackupDeleteKeys(u, a, backup_type))
        /\ last' = [op |-> "delete_adapter_backup", user |-> u, avatar |-> a,
                    backup_type |-> backup_type,
                    status |-> IF raises THEN "500" ELSE "200"]
        /\ UNCHANGED <<clock, local>>

NextBackupDelete ==
    \E a \in Avatars :
        \/ \E f \in Filenames, flag \in BOOLEAN, body \in Bodies, ctype \in ContentTypes :
              ApiUploadTrainingData(USER_ID, a, f, body, ctype, flag, FALSE)
        \/ ManagerCreateAdapter(USER_ID, a, "default", FALSE)
        \/ \E dir \in TrainingDataDirs : BackupTrainingData(USER_ID, a, dir)
        \/ \E backup_type \in BackupTypes : ApiDeleteAdapterBackup(USER_ID, a, backup_type)
        \/ AdapterExists(USER_ID, a, FALSE)

SpecBackupDelete == InitData /\ [][NextBackupDelete]_vars

\* C39: delete_adapter_backup with backup_type "adapters" removes
\* adapter_backup.zip and its backup_metadata.json and nothing else, after
\* which adapter_exists is false and restore_adapters_from_s3 reports
\* NotFound; with an unknown backup_type no object is deleted.
C39_ScopedBackupDelete ==
    [][ (last'.op = "delete_adapter_backup")
        => LET u == last'.user
               a == last'.avatar
           IN  /\ (last'.backup_type = "adapters")
                  => /\ store'[AdapterBackupKey(u, a)] = NoObject
                     /\ store'[BackupMetadataKey(u, a)] = NoObject
                     /\ ~adapter_exists(store', u, a, FALSE)
                     /\ RestoreStatus(store', u, a, FALSE) = "NotFound404"
                     /\ \A k \in AllKeys \ BackupDeleteKeys(u, a, "adapters") :
                           store'[k] = store[k]
               /\ (last'.backup_type \notin {"adapters", "training_data"})
                  => /\ last'.status # "200"
                     /\ store' = store
      ]_vars

====
